---- MODULE Spec2Model ----
(***************************************************************************)
(* SwopTrader REST API: the offer notification pipeline (credential        *)
(* bootstrap, sendPushNotification, removeInvalidTokens,                   *)
(* sendOfferNotification, queueOfferNotificationForOffer) and the routes   *)
(* that drive it, modelled from the server source.                         *)
(*                                                                         *)
(* Every `await` of the source is a step boundary: a handler or a dispatch *)
(* is a small process whose pc names the await it is suspended at.  A      *)
(* store operation (findOne, save, findOneAndUpdate, updateOne) is atomic  *)
(* in the store and may fail (connection error), which the driver reports  *)
(* as a rejected promise.                                                  *)
(***************************************************************************)
EXTENDS Integers, Sequences, FiniteSets, TLC

VARIABLES
    users,              \* User collection: sequence of user documents
    items,              \* Item collection: sequence of item documents
    offers,             \* Offer collection: sequence of offer documents
    chats,              \* Chat collection
    chatMessages,       \* ChatMessage collection
    tradeHistory,       \* TradeHistory collection
    env,                \* process.env: the two credential variables
    firebaseMessaging,  \* module-level `let firebaseMessaging`
    adminApps,          \* admin.apps.length
    credentialReads,    \* calls of parseFirebaseCredential made so far
    reqs,               \* HTTP requests received, in arrival order
    tasks,              \* sendOfferNotification invocations, in start order
    providerLog,        \* sendEachForMulticast calls received by the provider
    pruneLog,           \* calls of removeInvalidTokens, with the store write of each
    crashed             \* an exception or rejection nobody handles was raised

vars == <<users, items, offers, chats, chatMessages, tradeHistory,
          env, firebaseMessaging, adminApps, credentialReads,
          reqs, tasks, providerLog, pruneLog, crashed>>

\* the collections no dispatch and no user, item or offer route touches
recordVars == <<chats, chatMessages, tradeHistory>>
storeVars == <<users, items, offers, recordVars>>
transportVars == <<env, firebaseMessaging, adminApps, credentialReads>>

-----------------------------------------------------------------------------
(* Bounds of the model *)

\* POST /api/v1/offers requests per behaviour
MaxOfferReqs == 2
\* POST /api/v1/notifications/offers requests per behaviour
MaxNotifyReqs == 1
\* POST /api/v1/notifications/token requests per behaviour
MaxTokenReqs == 1
\* tokens beyond a whole number of batches in the largest stored token list
MaxExtraTokens == 1
\* registration requests per behaviour of SpecRegister
MaxRegisterReqs == 3
\* calls of removeInvalidTokens per behaviour of SpecPrune
MaxPruneCalls == 2
\* dispatches to one recipient per behaviour of SpecConcurrent
MaxConcurrent == 2
\* item and offer requests per behaviour of SpecItems
MaxListReqs == 2
\* requests of any route per behaviour of SpecApi
MaxApiReqs == 2
\* creation and user update requests per behaviour of SpecCreate
MaxCreateReqs == 2
\* cleanup requests per behaviour of SpecCleanup
MaxCleanupReqs == 2
\* user and item creation requests per behaviour of SpecCleanup
MaxCleanupCreates == 1
\* PUT /api/v1/offers/:offerId requests per behaviour of SpecOffers
MaxOfferPuts == 1

(* Program constants *)

\* const chunkSize = 500
chunkSize == 500
\* Boolean('') is false: the empty token string is written 0, tokens are 1, 2, ...
EmptyToken == 0

-----------------------------------------------------------------------------
(* Generic helpers *)

Range(s) == {s[i] : i \in DOMAIN s}

Min(S) == CHOOSE x \in S : \A y \in S : x <= y

Last(s) == s[Len(s)]

\* Boolean(token)
Truthy(token) == token # EmptyToken

\* tokens.filter(Boolean)
FilterBoolean(tokens) == SelectSeq(tokens, Truthy)

\* [...new Set(tokens)]: a Set iterates in insertion order, so each value
\* is kept where it occurs first
SetSpread(tokens) ==
    LET entries == [i \in DOMAIN tokens |-> <<i, tokens[i]>>]
        IsFirst(e) == \A j \in 1..(e[1] - 1) : tokens[j] # e[2]
        kept == SelectSeq(entries, IsFirst)
    IN  IF Cardinality(Range(tokens)) = Len(tokens)
        THEN tokens     \* no value occurs twice: every entry is a first occurrence
        ELSE [k \in DOMAIN kept |-> kept[k][2]]

\* Array.prototype.slice(from, to) with 0-based, end-exclusive indices
Slice(s, from, to) ==
    LET hi == IF to < Len(s) THEN to ELSE Len(s)
    IN  IF from >= hi THEN <<>> ELSE [k \in 1..(hi - from) |-> s[from + k]]

-----------------------------------------------------------------------------
(* Credential bootstrap *)

\* A credential text is a body wrapped in `layers` base64 encodings.  Body
\* "empty" is the undefined or empty variable, "serviceAccount" the JSON text
\* of a usable service account, "otherJson" JSON text that is no service
\* account, "notJson" any other text.
NoValue == [layers |-> 0, body |-> "empty"]

CredentialTexts ==
    {NoValue} \cup [layers : 0..2, body : {"serviceAccount", "otherJson", "notJson"}]

\* JSON.parse: the parsed value, or "SyntaxError" when it throws
JSONparse(text) ==
    IF text.layers = 0 /\ text.body \in {"serviceAccount", "otherJson"}
    THEN text.body
    ELSE "SyntaxError"

\* Buffer.from(raw, 'base64').toString('utf8'): never throws; text that is
\* no base64 encoding decodes to bytes that are no JSON
Base64Decode(text) ==
    IF text.layers > 0
    THEN [layers |-> text.layers - 1, body |-> text.body]
    ELSE [layers |-> 0, body |-> "notJson"]

\* process.env.FIREBASE_SERVICE_ACCOUNT_JSON || process.env.FIREBASE_SERVICE_ACCOUNT
getRawFirebaseCredential(e) ==
    IF e.FIREBASE_SERVICE_ACCOUNT_JSON.body # "empty"
    THEN e.FIREBASE_SERVICE_ACCOUNT_JSON
    ELSE e.FIREBASE_SERVICE_ACCOUNT

\* the credential object, or "null"
parseFirebaseCredential(e) ==
    LET raw == getRawFirebaseCredential(e)
    IN  IF raw.body = "empty" THEN "null"
        ELSE IF JSONparse(raw) # "SyntaxError" THEN JSONparse(raw)
        ELSE IF JSONparse(Base64Decode(raw)) # "SyntaxError"
             THEN JSONparse(Base64Decode(raw))
             ELSE "null"

\* admin.credential.cert(credential) throws unless the object is a service account
CertThrows(credential) == credential # "serviceAccount"

\* an initialisation that falls back to the default application credentials
\* when no credential was parsed
initializeFirebaseMessagingDefaultApp(fm, apps, e) ==
    IF fm # "null"
    THEN [result |-> fm, firebaseMessaging |-> fm, adminApps |-> apps, reads |-> 0]
    ELSE IF apps = 0 /\ parseFirebaseCredential(e) # "null"
                     /\ CertThrows(parseFirebaseCredential(e))
    THEN [result |-> "null", firebaseMessaging |-> "null", adminApps |-> apps, reads |-> 1]
    ELSE [result |-> "messaging", firebaseMessaging |-> "messaging", adminApps |-> 1,
          reads |-> IF apps = 0 THEN 1 ELSE 0]

\* initializeFirebaseMessaging: the value returned, the module state left
\* and the number of times parseFirebaseCredential was called
initializeFirebaseMessaging(fm, apps, e) ==
    IF fm # "null"
    THEN [result |-> fm, firebaseMessaging |-> fm, adminApps |-> apps, reads |-> 0]
    ELSE IF apps = 0 /\ parseFirebaseCredential(e) = "null"
    THEN [result |-> "null", firebaseMessaging |-> "null", adminApps |-> apps, reads |-> 1]
    ELSE IF apps = 0 /\ CertThrows(parseFirebaseCredential(e))
    THEN [result |-> "null", firebaseMessaging |-> "null", adminApps |-> apps, reads |-> 1]
    ELSE [result |-> "messaging", firebaseMessaging |-> "messaging", adminApps |-> 1,
          reads |-> IF apps = 0 THEN 1 ELSE 0]

\* a getter that initialises on every call, whether or not a client exists
getFirebaseMessagingAlwaysInitialize(fm, apps, e) ==
    initializeFirebaseMessaging("null", 0, e)

\* firebaseMessaging || initializeFirebaseMessaging()
getFirebaseMessaging(fm, apps, e) ==
    IF fm # "null"
    THEN [result |-> fm, firebaseMessaging |-> fm, adminApps |-> apps, reads |-> 0]
    ELSE initializeFirebaseMessaging(fm, apps, e)

-----------------------------------------------------------------------------
(* sendPushNotification: the synchronous parts *)

\* (tokens || []).filter(Boolean), without the Set
UniqueTokensKeepingDuplicates(tokens) == FilterBoolean(tokens)

\* [...new Set((tokens || []).filter(Boolean))]
UniqueTokens(tokens) == SetSpread(FilterBoolean(tokens))

\* a loop whose slices end one entry late: slice(i, i + chunkSize + 1)
RECURSIVE BatchesOverlappingFrom(_, _)
BatchesOverlappingFrom(uniqueTokens, i) ==
    IF i < Len(uniqueTokens)
    THEN <<Slice(uniqueTokens, i, i + chunkSize + 1)>>
            \o BatchesOverlappingFrom(uniqueTokens, i + chunkSize)
    ELSE <<>>

BatchesOverlapping(uniqueTokens) == BatchesOverlappingFrom(uniqueTokens, 0)

\* for (let i = 0; i < uniqueTokens.length; i += chunkSize)
\*   batches.push(uniqueTokens.slice(i, i + chunkSize))
RECURSIVE BatchesFrom(_, _)
BatchesFrom(uniqueTokens, i) ==
    IF i < Len(uniqueTokens)
    THEN <<Slice(uniqueTokens, i, i + chunkSize)>> \o BatchesFrom(uniqueTokens, i + chunkSize)
    ELSE <<>>

Batches(uniqueTokens) == BatchesFrom(uniqueTokens, 0)

\* An error code is the sequence of the segments of its text, so that
\* String.prototype.includes is membership of a segment; <<>> is the absent
\* code ('' after `result.error?.code || ''`).
CodeUnregistered == <<"messaging", "registration-token-not-registered">>
CodeInvalidToken == <<"messaging", "invalid-registration-token">>
CodeInternal == <<"messaging", "internal-error">>
CodeNone == <<>>

Includes(errorCode, segment) == segment \in Range(errorCode)

\* a condition that takes every failed delivery for an invalid token
IsInvalidTokenResultAnyFailure(result) == ~result.success

\* the condition under which a token is pushed to invalidTokens
IsInvalidTokenResult(result) ==
    /\ ~result.success
    /\ \/ Includes(result.code, "registration-token-not-registered")
       \/ Includes(result.code, "invalid-registration-token")

\* response.responses.forEach((result, index) => ... invalidTokens.push(batch[index]))
CollectInvalid(batch, responses) ==
    LET entries == [i \in DOMAIN responses |-> <<batch[i], responses[i]>>]
        IsInvalid(e) == IsInvalidTokenResult(e[2])
        kept == SelectSeq(entries, IsInvalid)
    IN  [k \in DOMAIN kept |-> kept[k][1]]

\* successCount = response.successCount: the count of the last batch only
AddSuccessOverwriting(successCount, response) == response.successCount

\* successCount += response.successCount
AddSuccess(successCount, response) == successCount + response.successCount

\* failureCount += response.failureCount
AddFailure(failureCount, response) == failureCount + response.failureCount

\* invalidTokens after the forEach over one batch response
AddInvalid(invalidTokens, batch, response) ==
    invalidTokens \o CollectInvalid(batch, response.responses)

-----------------------------------------------------------------------------
(* The store: collections are sequences of documents in insertion order *)

\* positions of the documents whose id field equals id
Matching(coll, id) == {i \in DOMAIN coll : coll[i].id = id}

\* Model.findOne({ id }): <<doc>> for the first match, <<>> for null
FindOne(coll, id) ==
    IF Matching(coll, id) = {} THEN <<>> ELSE <<coll[Min(Matching(coll, id))]>>

OfferStatuses == {"PENDING", "ACCEPTED", "REJECTED", "COUNTERED", "EXPIRED", "CANCELLED"}

\* new Offer(req.body): an absent field is "", the status defaults to PENDING
NewOffer(body) ==
    [id |-> body.id,
     fromUserId |-> body.fromUserId,
     toUserId |-> body.toUserId,
     requestedItemId |-> body.requestedItemId,
     status |-> IF body.status = "" THEN "PENDING" ELSE body.status,
     message |-> body.message]

\* schema validation run by save(): required fields and the status enum
OfferValid(doc) ==
    /\ doc.id # ""
    /\ doc.fromUserId # ""
    /\ doc.toUserId # ""
    /\ doc.requestedItemId # ""
    /\ doc.status \in OfferStatuses

\* offer.save(): validation, then an insert that the unique index on id
\* admits or rejects; storeOk is FALSE when the store itself fails
SaveOffer(coll, doc, storeOk) ==
    IF storeOk /\ OfferValid(doc) /\ Matching(coll, doc.id) = {}
    THEN [ok |-> TRUE, coll |-> Append(coll, doc)]
    ELSE [ok |-> FALSE, coll |-> coll]

\* $pull: { fcmTokens: invalidTokens }: without $in the condition matches
\* no string entry and nothing is removed
PullWithoutIn(tokens, invalidTokens) == tokens

\* $pull: { fcmTokens: { $in: invalidTokens } }
Pull(tokens, invalidTokens) ==
    LET Stays(token) == token \notin Range(invalidTokens)
    IN  SelectSeq(tokens, Stays)

\* the same update with { upsert: true }: an unknown id inserts a document
UpdateOnePullUpsert(coll, userId, invalidTokens) ==
    IF Matching(coll, userId) = {}
    THEN Append(coll, [id |-> userId, name |-> "", email |-> "",
                       fcmTokens |-> <<>>, deviceTokens |-> <<>>])
    ELSE [coll EXCEPT ![Min(Matching(coll, userId))].fcmTokens = Pull(@, invalidTokens)]

\* an update that also unsets the devices mapped to a pulled token
UpdateOnePullAndDevices(coll, userId, invalidTokens) ==
    IF Matching(coll, userId) = {} THEN coll
    ELSE [coll EXCEPT ![Min(Matching(coll, userId))] =
             [@ EXCEPT !.fcmTokens = Pull(@, invalidTokens),
                       !.deviceTokens =
                           [d \in {x \in DOMAIN @ : @[x] \notin Range(invalidTokens)} |-> @[d]]]]

\* User.updateOne({ id: userId }, { $pull: ... }): the first matching
\* document is updated, no document means no change
UpdateOnePull(coll, userId, invalidTokens) ==
    IF Matching(coll, userId) = {} THEN coll
    ELSE [coll EXCEPT ![Min(Matching(coll, userId))].fcmTokens = Pull(@, invalidTokens)]

\* $push: { fcmTokens: token }: appended whether or not it is there
AddToSetPush(tokens, token) == Append(tokens, token)

\* $addToSet: { fcmTokens: token }
AddToSet(tokens, token) ==
    IF token \in Range(tokens) THEN tokens ELSE Append(tokens, token)

\* a mapping that keeps the token a device registered first
SetDeviceTokenOnInsert(deviceTokens, deviceId, token) ==
    IF deviceId = "" THEN deviceTokens
    ELSE deviceTokens @@ (deviceId :> token)

\* $set: { 'deviceTokens.<deviceId>': token }, only if (deviceId)
SetDeviceToken(deviceTokens, deviceId, token) ==
    IF deviceId = "" THEN deviceTokens
    ELSE (deviceId :> token) @@ deviceTokens

\* the same update with { upsert: true }: an unknown id inserts a document
RegisterTokenUpsert(coll, userId, token, deviceId) ==
    IF Matching(coll, userId) = {}
    THEN Append(coll, [id |-> userId, name |-> "", email |-> "",
                       fcmTokens |-> <<token>>,
                       deviceTokens |-> SetDeviceToken(<<>>, deviceId, token)])
    ELSE [coll EXCEPT ![Min(Matching(coll, userId))] =
             [@ EXCEPT !.fcmTokens = AddToSet(@, token),
                       !.deviceTokens = SetDeviceToken(@, deviceId, token)]]

\* User.findOneAndUpdate({ id: userId }, updatePayload, { new: true })
RegisterTokenUpdate(coll, userId, token, deviceId) ==
    IF Matching(coll, userId) = {} THEN coll
    ELSE [coll EXCEPT ![Min(Matching(coll, userId))] =
             [@ EXCEPT !.fcmTokens = AddToSet(@, token),
                       !.deviceTokens = SetDeviceToken(@, deviceId, token)]]

-----------------------------------------------------------------------------
(* The push provider *)

\* the tokens whose delivery the provider may fail
ProbeTokens == {2, chunkSize + 1, 2 * chunkSize + 1}

ErrorCodes == {CodeUnregistered, CodeInvalidToken, CodeInternal, CodeNone}

\* the failures the provider may report for a batch: a code for each of
\* some probe tokens of the batch
BatchErrors(batch) ==
    UNION {[F -> ErrorCodes] : F \in SUBSET (Range(batch) \cap ProbeTokens)}

\* the BatchResponse of messaging.sendEachForMulticast: one result per
\* token, in the order of the tokens, and the two counts taken from them
BatchResponse(batch, errors) ==
    [successCount |-> Len(batch) - Cardinality(DOMAIN errors),
     failureCount |-> Cardinality(DOMAIN errors),
     responses |-> [k \in 1..Len(batch) |->
                      IF batch[k] \in DOMAIN errors
                      THEN [success |-> FALSE, code |-> errors[batch[k]]]
                      ELSE [success |-> TRUE, code |-> CodeNone]]]

-----------------------------------------------------------------------------
(* Requests, dispatches and their inputs *)

RouteOffers == "POST /api/v1/offers"
RouteNotifyOffers == "POST /api/v1/notifications/offers"
RouteToken == "POST /api/v1/notifications/token"

\* the ways a dispatch can end by throwing
Throws == {"not_configured", "store_error", "provider_error"}

\* request bodies of POST /api/v1/offers; "" is an absent field
OfferBodies ==
    {[id |-> "o1", fromUserId |-> "u2", toUserId |-> "u1",
      requestedItemId |-> "i1", status |-> "", message |-> "hi"],
     [id |-> "o2", fromUserId |-> "u1", toUserId |-> "u3",
      requestedItemId |-> "i9", status |-> "", message |-> ""],
     [id |-> "o3", fromUserId |-> "u2", toUserId |-> "",
      requestedItemId |-> "i1", status |-> "", message |-> ""]}

\* request bodies of POST /api/v1/notifications/offers
FullNotifyBodies ==
    {[offerId |-> "o1", recipientUserId |-> "u1", senderUserId |-> "u2",
      senderName |-> "Bob", itemName |-> "Guitar", message |-> "hi"],
     [offerId |-> "o2", recipientUserId |-> "u3", senderUserId |-> "u1",
      senderName |-> "Ann", itemName |-> "", message |-> ""]}

NotifyBodies ==
    FullNotifyBodies \cup
    {[b EXCEPT ![f] = ""] :
       b \in {x \in FullNotifyBodies : x.recipientUserId = "u1"},
       f \in {"offerId", "recipientUserId", "senderUserId", "senderName"}}

\* request bodies of POST /api/v1/notifications/token
TokenBodies ==
    {[userId |-> "u1", token |-> 1, deviceId |-> "D1"],
     [userId |-> "u1", token |-> 2, deviceId |-> "D1"],
     [userId |-> "u1", token |-> 2, deviceId |-> ""],
     [userId |-> "u1", token |-> EmptyToken, deviceId |-> "D1"],
     [userId |-> "u3", token |-> 1, deviceId |-> "D1"],
     [userId |-> "", token |-> 1, deviceId |-> ""]}

RequestsOf(route) == {r \in DOMAIN reqs : reqs[r].route = route}

\* the dispatches started on behalf of request r
TasksOf(r) == {t \in DOMAIN tasks : tasks[t].req = r}

\* a sendOfferNotification invocation about to start; caller is "queue"
\* (queueOfferNotificationForOffer) or "route" (the notifications route)
NewTask(caller, r, offerId, recipientUserId, pc) ==
    [caller |-> caller, req |-> r, offerId |-> offerId,
     recipientUserId |-> recipientUserId, pc |-> pc,
     lookedUp |-> FALSE, recipientTokens |-> <<>>, uniqueTokens |-> <<>>,
     batches |-> <<>>, batchIdx |-> 0,
     successCount |-> 0, failureCount |-> 0, invalidTokens |-> <<>>,
     outcome |-> "pending", pruned |-> "none", settled |-> "pending"]

-----------------------------------------------------------------------------
(* Initial states *)

User(id, name, email, fcmTokens) ==
    [id |-> id, name |-> name, email |-> email,
     fcmTokens |-> fcmTokens, deviceTokens |-> <<>>]

\* the token lists user u1 may hold when the process starts; registration
\* stores no duplicate and no empty token, POST and PUT on users store any array
InitTokenLists == {<<>>, <<EmptyToken>>, <<1, 2>>, <<2, EmptyToken, 1, 2>>}

Env(json, account) ==
    [FIREBASE_SERVICE_ACCOUNT_JSON |-> json, FIREBASE_SERVICE_ACCOUNT |-> account]

\* the environments the server is started in under Spec and SpecNotify:
\* no credential, and a usable one
EnvChoices ==
    {Env(NoValue, NoValue),
     Env(NoValue, [layers |-> 1, body |-> "serviceAccount"])}

\* every pair of values of the two credential variables
AllEnvs ==
    {Env(json, account) : json \in CredentialTexts, account \in CredentialTexts}

\* the process as it starts, with one chat stored and no message and no
\* trade record
InitProcess ==
    /\ chats = <<[id |-> "c1", lastMessageAt |-> 0]>>
    /\ chatMessages = <<>>
    /\ tradeHistory = <<>>
    /\ firebaseMessaging = "null"
    /\ adminApps = 0
    /\ credentialReads = 0
    /\ reqs = <<>>
    /\ tasks = <<>>
    /\ providerLog = <<>>
    /\ pruneLog = <<>>
    /\ crashed = FALSE

Init ==
    /\ \E tokens \in InitTokenLists :
         users = <<User("u1", "Ann", "ann@example.com", tokens),
                   User("u2", "Bob", "bob@example.com", <<>>)>>
    /\ items = <<[id |-> "i1", name |-> "Guitar", ownerId |-> "u1", isAvailable |-> TRUE]>>
    /\ offers = <<>>
    /\ env \in EnvChoices
    /\ InitProcess

-----------------------------------------------------------------------------
(* How a dispatch ends *)

\* a wrapper without the try/catch: what its body throws rejects its promise
queueOfferNotificationForOfferUncaught(outcome) ==
    IF outcome \in Throws THEN "rejected" ELSE "resolved"

\* queueOfferNotificationForOffer: try { ... } catch (error) { console.error }
\* -- how the promise of the wrapper settles for an outcome of its body
queueOfferNotificationForOffer(outcome) ==
    IF outcome \in Throws THEN "resolved" ELSE "resolved"

\* a catch whose message comparison never matches: "not configured" gets 500
NotifyOfferStatusUnmatchedMessage(outcome) ==
    CASE outcome = "skipped" -> 404
      [] outcome = "sent" -> 200
      [] OTHER -> 500

\* the status the notifications route answers for an outcome of the dispatch
NotifyOfferStatus(outcome) ==
    CASE outcome = "skipped" -> 404
      [] outcome = "sent" -> 200
      [] outcome = "not_configured" -> 503
      [] OTHER -> 500

\* the data of that answer: the dispatch result on 200, nothing otherwise
NotifyOfferData(task) ==
    IF task.outcome = "sent"
    THEN [successCount |-> task.successCount,
          failureCount |-> task.failureCount,
          invalidTokens |-> task.invalidTokens]
    ELSE <<>>

\* Dispatch t ends as the record `ended` says (its outcome is set): the
\* wrapper settles, or the route that awaited the dispatch answers.
Complete(t, ended) ==
    LET settled == IF ended.caller = "queue"
                   THEN queueOfferNotificationForOffer(ended.outcome)
                   ELSE "resolved"
    IN  /\ tasks' = [tasks EXCEPT ![t] = [ended EXCEPT !.pc = "done", !.settled = settled]]
        /\ reqs' = IF ended.caller = "route"
                   THEN [reqs EXCEPT ![ended.req] =
                           [@ EXCEPT !.pc = "done",
                                     !.status = NotifyOfferStatus(ended.outcome),
                                     !.data = NotifyOfferData(ended)]]
                   ELSE reqs
        /\ crashed' = (crashed \/ settled = "rejected")

-----------------------------------------------------------------------------
(* POST /api/v1/offers *)

\* a handler that answers 201 whether or not the save succeeded
OfferResponseStatusIgnoringSave(saved) == 201

\* the status answered once the save has settled
OfferResponseStatus(saved) == IF saved THEN 201 ELSE 500

\* a handler that starts the dispatcher on the failure path as well
QueueAfterSaveOrFailure(taskSeq, r, offer, saved) ==
    Append(taskSeq, NewTask("queue", r, offer.id, offer.toUserId, "lookup"))

\* queueOfferNotificationForOffer(offer) stands after the awaited save and
\* inside the try: it is reached only when the save succeeded, and the
\* wrapper then runs up to its first await
QueueAfterSave(taskSeq, r, offer, saved) ==
    IF saved
    THEN Append(taskSeq, NewTask("queue", r, offer.id, offer.toUserId, "lookup"))
    ELSE taskSeq

\* new Offer(req.body); await offer.save()
PostOfferSave(body, storeOk) ==
    /\ Cardinality(RequestsOf(RouteOffers)) < MaxOfferReqs
    /\ LET result == SaveOffer(offers, NewOffer(body), storeOk)
       IN  /\ offers' = result.coll
           /\ reqs' = Append(reqs, [route |-> RouteOffers, body |-> body,
                                    pc |-> IF result.ok THEN "saved" ELSE "failed",
                                    saveOk |-> result.ok,
                                    status |-> 0, data |-> <<>>])
    /\ UNCHANGED <<users, items, recordVars, transportVars, tasks, providerLog, pruneLog, crashed>>

\* the continuation of the handler: queueOfferNotificationForOffer(offer),
\* which runs up to its first await, then res.status(201); or the catch
PostOfferRespond(r) ==
    /\ r \in RequestsOf(RouteOffers)
    /\ reqs[r].pc \in {"saved", "failed"}
    /\ LET offer == NewOffer(reqs[r].body)
           saved == reqs[r].pc = "saved"
       IN  /\ tasks' = QueueAfterSave(tasks, r, offer, saved)
           /\ reqs' = [reqs EXCEPT ![r] =
                         [@ EXCEPT !.pc = "done",
                                   !.status = OfferResponseStatus(saved),
                                   !.data = IF saved THEN offer ELSE <<>>]]
    /\ UNCHANGED <<storeVars, transportVars, providerLog, pruneLog, crashed>>

-----------------------------------------------------------------------------
(* queueOfferNotificationForOffer *)

\* await Promise.all([User.findOne(sender), Item.findOne(requestedItem)]);
\* when both reads succeed sendOfferNotification is called and runs up to
\* its first await, otherwise the catch logs the error
QueueLookup(t, senderOk, itemOk) ==
    /\ t \in DOMAIN tasks
    /\ tasks[t].pc = "lookup"
    /\ IF senderOk /\ itemOk
       THEN /\ tasks' = [tasks EXCEPT ![t].pc = "recipient"]
            /\ UNCHANGED <<reqs, crashed>>
       ELSE Complete(t, [tasks[t] EXCEPT !.outcome = "store_error"])
    /\ UNCHANGED <<storeVars, transportVars, providerLog, pruneLog>>

-----------------------------------------------------------------------------
(* sendOfferNotification and sendPushNotification *)

\* recipient?.fcmTokens || []: the stored list with its empty entries
RecipientTokensUnfiltered(coll, recipientUserId) ==
    IF FindOne(coll, recipientUserId) = <<>> THEN <<>>
    ELSE FindOne(coll, recipientUserId)[1].fcmTokens

\* recipient?.fcmTokens?.filter(Boolean) || []
RecipientTokens(coll, recipientUserId) ==
    IF FindOne(coll, recipientUserId) = <<>> THEN <<>>
    ELSE FilterBoolean(FindOne(coll, recipientUserId)[1].fcmTokens)

\* a call of messaging.sendEachForMulticast as the provider receives it
ProviderCall(t, batch) ==
    [task |-> t, tokens |-> batch, state |-> "pending", errors |-> <<>>]

\* a send loop without the await: the provider calls of all batches are
\* made at once (Promise.all over the batches)
DispatchRecipientAllAtOnce(t, storeOk) ==
    /\ t \in DOMAIN tasks
    /\ tasks[t].pc = "recipient"
    /\ storeOk
    /\ LET task == tasks[t]
           recipientTokens == RecipientTokens(users, task.recipientUserId)
           messaging == getFirebaseMessaging(firebaseMessaging, adminApps, env)
           uniqueTokens == UniqueTokens(recipientTokens)
           batches == Batches(uniqueTokens)
       IN  /\ Len(uniqueTokens) > 0
           /\ messaging.result # "null"
           /\ firebaseMessaging' = messaging.firebaseMessaging
           /\ adminApps' = messaging.adminApps
           /\ credentialReads' = credentialReads + messaging.reads
           /\ tasks' = [tasks EXCEPT ![t] =
                          [task EXCEPT !.lookedUp = TRUE,
                                       !.recipientTokens = recipientTokens,
                                       !.pc = "sending",
                                       !.uniqueTokens = uniqueTokens,
                                       !.batches = batches,
                                       !.batchIdx = 1]]
           /\ providerLog' = providerLog \o
                                [k \in DOMAIN batches |-> ProviderCall(t, batches[k])]
    /\ UNCHANGED <<storeVars, env, reqs, pruneLog, crashed>>

\* await User.findOne(recipient) and what follows it without a further
\* await: the no-token early return, getFirebaseMessaging, the
\* deduplication, the batching and the send of the first batch
DispatchRecipient(t, storeOk) ==
    /\ t \in DOMAIN tasks
    /\ tasks[t].pc = "recipient"
    /\ LET task == tasks[t]
           recipientTokens == RecipientTokens(users, task.recipientUserId)
           looked == [task EXCEPT !.lookedUp = TRUE, !.recipientTokens = recipientTokens]
           messaging == getFirebaseMessaging(firebaseMessaging, adminApps, env)
           uniqueTokens == UniqueTokens(recipientTokens)
           batches == Batches(uniqueTokens)
       IN  IF ~storeOk
           THEN /\ Complete(t, [task EXCEPT !.outcome = "store_error"])
                /\ UNCHANGED <<firebaseMessaging, adminApps, credentialReads, providerLog>>
           ELSE IF Len(recipientTokens) = 0
           THEN /\ Complete(t, [looked EXCEPT !.outcome = "skipped"])
                /\ UNCHANGED <<firebaseMessaging, adminApps, credentialReads, providerLog>>
           ELSE /\ firebaseMessaging' = messaging.firebaseMessaging
                /\ adminApps' = messaging.adminApps
                /\ credentialReads' = credentialReads + messaging.reads
                /\ IF messaging.result = "null"
                   THEN /\ Complete(t, [looked EXCEPT !.outcome = "not_configured"])
                        /\ UNCHANGED providerLog
                   ELSE IF Len(uniqueTokens) = 0
                   THEN /\ Complete(t, [looked EXCEPT !.outcome = "sent"])
                        /\ UNCHANGED providerLog
                   ELSE /\ tasks' = [tasks EXCEPT ![t] =
                                       [looked EXCEPT !.pc = "sending",
                                                      !.uniqueTokens = uniqueTokens,
                                                      !.batches = batches,
                                                      !.batchIdx = 1]]
                        /\ providerLog' = Append(providerLog, ProviderCall(t, batches[1]))
                        /\ UNCHANGED <<reqs, crashed>>
    /\ UNCHANGED <<storeVars, env, pruneLog>>

\* the position in providerLog of the call of dispatch t that is in flight
InFlight(t) ==
    CHOOSE i \in DOMAIN providerLog :
        providerLog[i].task = t /\ providerLog[i].state = "pending"

\* a send loop that catches the rejection of a batch and goes on to prune
\* what the earlier batches collected
ProviderRaiseCaught(t) ==
    /\ t \in DOMAIN tasks
    /\ tasks[t].pc = "sending"
    /\ providerLog' = [providerLog EXCEPT ![InFlight(t)].state = "raised"]
    /\ IF Len(tasks[t].invalidTokens) > 0
       THEN /\ tasks' = [tasks EXCEPT ![t].pc = "pruning"]
            /\ UNCHANGED <<reqs, crashed>>
       ELSE Complete(t, [tasks[t] EXCEPT !.outcome = "sent"])
    /\ UNCHANGED <<storeVars, transportVars, pruneLog>>

\* the provider call of the current batch rejects: the await throws out of
\* sendPushNotification and sendOfferNotification
ProviderRaise(t) ==
    /\ t \in DOMAIN tasks
    /\ tasks[t].pc = "sending"
    /\ providerLog' = [providerLog EXCEPT ![InFlight(t)].state = "raised"]
    /\ Complete(t, [tasks[t] EXCEPT !.outcome = "provider_error"])
    /\ UNCHANGED <<storeVars, transportVars, pruneLog>>

\* the provider answers the current batch: the counts are added, the
\* invalid tokens collected; then the next batch is sent, or after the last
\* one sendOfferNotification calls removeInvalidTokens or returns
ProviderRespond(t, errors) ==
    /\ t \in DOMAIN tasks
    /\ tasks[t].pc = "sending"
    /\ LET task == tasks[t]
           batch == task.batches[task.batchIdx]
           response == BatchResponse(batch, errors)
           counted == [task EXCEPT
                         !.successCount = AddSuccess(@, response),
                         !.failureCount = AddFailure(@, response),
                         !.invalidTokens = AddInvalid(@, batch, response)]
           answered == [providerLog EXCEPT ![InFlight(t)] =
                          [@ EXCEPT !.state = "responded", !.errors = errors]]
       IN  /\ errors \in BatchErrors(batch)
           /\ IF task.batchIdx < Len(task.batches)
              THEN /\ tasks' = [tasks EXCEPT ![t] = [counted EXCEPT !.batchIdx = @ + 1]]
                   /\ providerLog' = Append(answered,
                                        ProviderCall(t, task.batches[task.batchIdx + 1]))
                   /\ UNCHANGED <<reqs, crashed>>
              ELSE /\ providerLog' = answered
                   /\ IF Len(counted.invalidTokens) > 0
                      THEN /\ tasks' = [tasks EXCEPT ![t] = [counted EXCEPT !.pc = "pruning"]]
                           /\ UNCHANGED <<reqs, crashed>>
                      ELSE Complete(t, [counted EXCEPT !.outcome = "sent"])
    /\ UNCHANGED <<storeVars, transportVars, pruneLog>>

\* a removeInvalidTokens without the try/catch: a failed write rejects
removeInvalidTokensUncaught(coll, userId, invalidTokens, storeOk) ==
    IF Len(invalidTokens) = 0
    THEN [coll |-> coll, write |-> "none", settled |-> "resolved"]
    ELSE IF storeOk
    THEN [coll |-> UpdateOnePull(coll, userId, invalidTokens),
          write |-> "ok", settled |-> "resolved"]
    ELSE [coll |-> coll, write |-> "failed", settled |-> "rejected"]

\* removeInvalidTokens: the collection it leaves, the updateOne it issued
\* ("none" after the early return for an empty list, "ok", or "failed" when
\* the store rejected it and the catch logged the error) and how its promise
\* settles
removeInvalidTokens(coll, userId, invalidTokens, storeOk) ==
    IF Len(invalidTokens) = 0
    THEN [coll |-> coll, write |-> "none", settled |-> "resolved"]
    ELSE IF storeOk
    THEN [coll |-> UpdateOnePull(coll, userId, invalidTokens),
          write |-> "ok", settled |-> "resolved"]
    ELSE [coll |-> coll, write |-> "failed", settled |-> "resolved"]

\* a call of removeInvalidTokens as pruneLog records it; task is 0 for a
\* call made outside a dispatch
PruneCall(t, userId, invalidTokens, removed) ==
    [task |-> t, userId |-> userId, invalidTokens |-> invalidTokens,
     write |-> removed.write, settled |-> removed.settled]

\* a pruning that writes back the list the dispatch read, less its invalid
\* tokens, in place of the $pull
PruneReadModifyWrite(t, storeOk) ==
    /\ t \in DOMAIN tasks
    /\ tasks[t].pc = "pruning"
    /\ LET task == tasks[t]
           written == Pull(task.recipientTokens, task.invalidTokens)
           removed == [coll |-> IF storeOk /\ Matching(users, task.recipientUserId) # {}
                                THEN [users EXCEPT
                                        ![Min(Matching(users, task.recipientUserId))].fcmTokens
                                            = written]
                                ELSE users,
                       write |-> IF storeOk THEN "ok" ELSE "failed",
                       settled |-> "resolved"]
       IN  /\ users' = removed.coll
           /\ pruneLog' = Append(pruneLog, PruneCall(t, task.recipientUserId,
                                                     task.invalidTokens, removed))
           /\ Complete(t, [task EXCEPT !.outcome = "sent", !.pruned = removed.write])
    /\ UNCHANGED <<items, offers, recordVars, transportVars, providerLog>>

\* await removeInvalidTokens(recipientUserId, response.invalidTokens);
\* return response -- or the rejection of the await, if there is one
Prune(t, storeOk) ==
    /\ t \in DOMAIN tasks
    /\ tasks[t].pc = "pruning"
    /\ LET task == tasks[t]
           removed == removeInvalidTokens(users, task.recipientUserId,
                                          task.invalidTokens, storeOk)
       IN  /\ users' = removed.coll
           /\ pruneLog' = Append(pruneLog, PruneCall(t, task.recipientUserId,
                                                     task.invalidTokens, removed))
           /\ Complete(t, [task EXCEPT
                             !.outcome = IF removed.settled = "resolved"
                                         THEN "sent" ELSE "store_error",
                             !.pruned = removed.write])
    /\ UNCHANGED <<items, offers, recordVars, transportVars, providerLog>>

-----------------------------------------------------------------------------
(* POST /api/v1/notifications/offers *)

\* !offerId || !recipientUserId || !senderUserId || !senderName
NotifyFieldsMissing(body) ==
    \/ body.offerId = ""
    \/ body.recipientUserId = ""
    \/ body.senderUserId = ""
    \/ body.senderName = ""

\* the validation, then the call of sendOfferNotification, which runs up to
\* its first await; the answer is given when the dispatch ends (Complete)
NotifyOffer(body) ==
    /\ IF NotifyFieldsMissing(body)
       THEN /\ reqs' = Append(reqs, [route |-> RouteNotifyOffers, body |-> body,
                                     pc |-> "done", status |-> 400, data |-> <<>>])
            /\ UNCHANGED tasks
       ELSE /\ reqs' = Append(reqs, [route |-> RouteNotifyOffers, body |-> body,
                                     pc |-> "dispatch", status |-> 0, data |-> <<>>])
            /\ tasks' = Append(tasks, NewTask("route", Len(reqs) + 1, body.offerId,
                                              body.recipientUserId, "recipient"))
    /\ UNCHANGED <<storeVars, transportVars, providerLog, pruneLog, crashed>>

\* a notification request, while the behaviour may take one more
PostNotifyOffer(body) ==
    /\ Cardinality(RequestsOf(RouteNotifyOffers)) < MaxNotifyReqs
    /\ NotifyOffer(body)

-----------------------------------------------------------------------------
(* POST /api/v1/notifications/token *)

\* !userId || !token
TokenFieldsMissing(body) == body.userId = "" \/ ~Truthy(body.token)

\* the whole handler: validation, findOneAndUpdate, answer
RegisterToken(body, storeOk) ==
    /\ LET answer(status, data) ==
               Append(reqs, [route |-> RouteToken, body |-> body, pc |-> "done",
                             status |-> status, data |-> data])
           updated == RegisterTokenUpdate(users, body.userId, body.token, body.deviceId)
       IN  IF TokenFieldsMissing(body)
           THEN reqs' = answer(400, <<>>) /\ UNCHANGED users
           ELSE IF ~storeOk
           THEN reqs' = answer(500, <<>>) /\ UNCHANGED users
           ELSE IF FindOne(users, body.userId) = <<>>
           THEN reqs' = answer(404, <<>>) /\ users' = updated
           ELSE /\ reqs' = answer(200, FindOne(updated, body.userId)[1].fcmTokens)
                /\ users' = updated
    /\ UNCHANGED <<items, offers, recordVars, transportVars, tasks, providerLog, pruneLog, crashed>>

\* a registration request, while the behaviour may take one more
PostToken(body, storeOk) ==
    /\ Cardinality(RequestsOf(RouteToken)) < MaxTokenReqs
    /\ RegisterToken(body, storeOk)

-----------------------------------------------------------------------------
(* The server: requests arrive and suspended handlers resume in any order *)

\* the dispatches that wait for the provider
Sending == {t \in DOMAIN tasks : tasks[t].pc = "sending"}

\* the steps of a dispatch, whoever started it
DispatchStep ==
    \/ \E t \in DOMAIN tasks, storeOk \in BOOLEAN : DispatchRecipient(t, storeOk)
    \/ \E t \in DOMAIN tasks : ProviderRaise(t)
    \/ \E t \in Sending :
          \E errors \in BatchErrors(tasks[t].batches[tasks[t].batchIdx]) :
             ProviderRespond(t, errors)
    \/ \E t \in DOMAIN tasks, storeOk \in BOOLEAN : Prune(t, storeOk)

\* offer creation and the dispatches it starts
Next ==
    \/ \E body \in OfferBodies, storeOk \in BOOLEAN : PostOfferSave(body, storeOk)
    \/ \E r \in DOMAIN reqs : PostOfferRespond(r)
    \/ \E t \in DOMAIN tasks, senderOk \in BOOLEAN, itemOk \in BOOLEAN :
          QueueLookup(t, senderOk, itemOk)
    \/ DispatchStep

Spec == Init /\ [][Next]_vars

\* the notification routes: token registration and explicit dispatches
NextNotify ==
    \/ \E body \in NotifyBodies : PostNotifyOffer(body)
    \/ \E body \in TokenBodies, storeOk \in BOOLEAN : PostToken(body, storeOk)
    \/ DispatchStep

SpecNotify == Init /\ [][NextNotify]_vars

InitCredential ==
    /\ \E tokens \in InitTokenLists :
         users = <<User("u1", "Ann", "ann@example.com", tokens),
                   User("u2", "Bob", "bob@example.com", <<>>)>>
    /\ items = <<[id |-> "i1", name |-> "Guitar", ownerId |-> "u1", isAvailable |-> TRUE]>>
    /\ offers = <<>>
    /\ env \in AllEnvs
    /\ InitProcess

\* one explicit dispatch, under every value of the credential variables
NextCredential ==
    \/ \E body \in FullNotifyBodies : reqs = <<>> /\ PostNotifyOffer(body)
    \/ DispatchStep

SpecCredential == InitCredential /\ [][NextCredential]_vars

\* <<1, 2, ..., n>>
TokensUpTo(n) == [k \in 1..n |-> k]

\* stored token lists around the batch size: one short of a batch, whole
\* batches, whole batches and a few more, and a list whose duplicates and
\* empty entries make it longer than a batch while its distinct tokens fit
BatchTokenLists ==
    {TokensUpTo(chunkSize - 1), TokensUpTo(chunkSize), TokensUpTo(2 * chunkSize),
     TokensUpTo(2 * chunkSize + MaxExtraTokens),
     TokensUpTo(chunkSize) \o <<2, EmptyToken, 1>>}
    \cup {TokensUpTo(chunkSize + e) : e \in 1..MaxExtraTokens}

InitBatch ==
    /\ \E tokens \in BatchTokenLists :
         users = <<User("u1", "Ann", "ann@example.com", tokens),
                   User("u2", "Bob", "bob@example.com", <<>>)>>
    /\ items = <<[id |-> "i1", name |-> "Guitar", ownerId |-> "u1", isAvailable |-> TRUE]>>
    /\ offers = <<>>
    /\ env = Env([layers |-> 0, body |-> "serviceAccount"], NoValue)
    /\ InitProcess

\* one explicit dispatch, to a recipient whose tokens fill several batches
NextBatch ==
    \/ \E body \in NotifyBodies : reqs = <<>> /\ PostNotifyOffer(body)
    \/ DispatchStep

SpecBatch == InitBatch /\ [][NextBatch]_vars

\* registration requests for one device of u1, for u1 without a device and
\* for another device of u2
RegisterBodies ==
    {[userId |-> "u1", token |-> 1, deviceId |-> "D1"],
     [userId |-> "u1", token |-> 2, deviceId |-> "D1"],
     [userId |-> "u1", token |-> 1, deviceId |-> ""],
     [userId |-> "u2", token |-> 1, deviceId |-> "D2"]}

\* the users hold the tokens earlier registrations left: none, or token 2
InitRegister ==
    /\ \E tokens \in {<<>>, <<2>>} :
         users = <<User("u1", "Ann", "ann@example.com", tokens),
                   User("u2", "Bob", "bob@example.com", <<>>)>>
    /\ items = <<[id |-> "i1", name |-> "Guitar", ownerId |-> "u1", isAvailable |-> TRUE]>>
    /\ offers = <<>>
    /\ env = Env([layers |-> 0, body |-> "serviceAccount"], NoValue)
    /\ InitProcess

\* repeated registrations in any order, and one dispatch that may prune
NextRegister ==
    \/ \E body \in RegisterBodies, storeOk \in BOOLEAN :
          /\ Cardinality(RequestsOf(RouteToken)) < MaxRegisterReqs
          /\ RegisterToken(body, storeOk)
    \/ \E body \in FullNotifyBodies :
          /\ RequestsOf(RouteNotifyOffers) = {}
          /\ body.recipientUserId = "u1"
          /\ PostNotifyOffer(body)
    \/ DispatchStep

SpecRegister == InitRegister /\ [][NextRegister]_vars

\* the arguments removeInvalidTokens is called with: a user that exists and
\* one that does not, tokens the user may hold and tokens nobody holds
PruneUserIds == {"u1", "u3"}
PruneTokenLists == {<<>>, <<2>>, <<1, 2>>, <<3>>, <<3, 4>>}

\* a call of removeInvalidTokens on its own
RemoveInvalidTokensCall(userId, invalidTokens, storeOk) ==
    /\ Len(pruneLog) < MaxPruneCalls
    /\ LET removed == removeInvalidTokens(users, userId, invalidTokens, storeOk)
       IN  /\ users' = removed.coll
           /\ pruneLog' = Append(pruneLog, PruneCall(0, userId, invalidTokens, removed))
           /\ crashed' = (crashed \/ removed.settled = "rejected")
    /\ UNCHANGED <<items, offers, recordVars, transportVars, reqs, tasks, providerLog>>

NextPrune ==
    \E userId \in PruneUserIds, invalidTokens \in PruneTokenLists, storeOk \in BOOLEAN :
        RemoveInvalidTokensCall(userId, invalidTokens, storeOk)

SpecPrune == Init /\ [][NextPrune]_vars

-----------------------------------------------------------------------------
(* Items and the paginated lists *)

RouteGetItems == "GET /api/v1/items"
RouteGetItem == "GET /api/v1/items/:itemId"
RouteDeleteItem == "DELETE /api/v1/items/:itemId"
RouteGetOffers == "GET /api/v1/offers"

\* A text is the sequence of its characters.  toLowerCase on the letters
\* the texts of the model are written with
Lower(char) ==
    CASE char = "G" -> "g"
      [] char = "U" -> "u"
      [] char = "B" -> "b"
      [] char = "O" -> "o"
      [] OTHER -> char

LowerText(text) == [k \in DOMAIN text |-> Lower(text[k])]

\* { $regex: search, $options: 'i' } for a search text without regular
\* expression metacharacters: the text occurs in the field, whatever the
\* case of the letters
RegexMatchesIgnoringCase(field, search) ==
    \E from \in 0..(Len(field) - Len(search)) :
        LowerText(Slice(field, from, from + Len(search))) = LowerText(search)

ItemDoc(id, name, description, category, ownerId, isAvailable, createdAt) ==
    [id |-> id, name |-> name, description |-> description, category |-> category,
     ownerId |-> ownerId, isAvailable |-> isAvailable,
     createdAt |-> createdAt, updatedAt |-> createdAt]

\* a filter in which one supplied condition suffices
ItemQueryMatchesAny(doc, q) ==
    /\ doc.isAvailable
    /\ \/ q.category = "" /\ q.search = <<>> /\ q.ownerId = ""
       \/ q.category # "" /\ doc.category = q.category
       \/ q.search # <<>> /\ \/ RegexMatchesIgnoringCase(doc.name, q.search)
                             \/ RegexMatchesIgnoringCase(doc.description, q.search)
       \/ q.ownerId # "" /\ doc.ownerId = q.ownerId

\* the query object of GET /api/v1/items applied to a document:
\* { isAvailable: true } and each of category, $or (search), ownerId that
\* the request supplied
ItemQueryMatches(doc, q) ==
    /\ doc.isAvailable
    /\ q.category # "" => doc.category = q.category
    /\ q.search # <<>> => \/ RegexMatchesIgnoringCase(doc.name, q.search)
                          \/ RegexMatchesIgnoringCase(doc.description, q.search)
    /\ q.ownerId # "" => doc.ownerId = q.ownerId

\* the query object of GET /api/v1/offers applied to a document
OfferQueryMatches(doc, q) ==
    /\ q.status # "" => doc.status = q.status
    /\ q.userId # "" => doc.fromUserId = q.userId \/ doc.toUserId = q.userId

\* the positions of the documents of a collection that a query matches
MatchingItems(coll, q) == {i \in DOMAIN coll : ItemQueryMatches(coll[i], q)}
MatchingOffers(coll, q) == {i \in DOMAIN coll : OfferQueryMatches(coll[i], q)}

\* .sort({ createdAt: -1 }) over the matching positions: every order of
\* them in which createdAt never increases; the store promises no order
\* among documents with equal createdAt, so one request may get them in one
\* order and the next in another
SortedByCreatedAt(coll, positions) ==
    {order \in [1..Cardinality(positions) -> positions] :
        /\ \A j, k \in DOMAIN order : j # k => order[j] # order[k]
        /\ \A j, k \in DOMAIN order :
              j < k => coll[order[j]].createdAt >= coll[order[k]].createdAt}

\* .limit(limit * 1).skip((page - 1) * limit) applied to a sorted order:
\* the documents of the page
PageOf(coll, order, page, limit) ==
    LET slice == Slice(order, (page - 1) * limit, (page - 1) * limit + limit)
    IN  [k \in DOMAIN slice |-> coll[slice[k]]]

\* Math.ceil(total / limit)
CeilDiv(total, limit) == (total + limit - 1) \div limit

\* pagination: { page, limit, total, pages }
Pagination(page, limit, total) ==
    [page |-> page, limit |-> limit, total |-> total, pages |-> CeilDiv(total, limit)]

\* the page and limit parameters requested: <<page, limit>>
PageLimits == {<<1, 1>>, <<2, 1>>, <<1, 2>>, <<2, 2>>}

\* the filters of GET /api/v1/items requested; "" and <<>> are absent parameters
ItemFilters ==
    {[category |-> "", search |-> <<>>, ownerId |-> ""],
     [category |-> "", search |-> <<"g", "U">>, ownerId |-> ""],
     [category |-> "Books", search |-> <<"g", "U">>, ownerId |-> ""],
     [category |-> "Books", search |-> <<"g", "U">>, ownerId |-> "u1"]}

ItemQueries ==
    {[page |-> pl[1], limit |-> pl[2], category |-> f.category,
      search |-> f.search, ownerId |-> f.ownerId] : pl \in PageLimits, f \in ItemFilters}

OfferQueries ==
    {[page |-> pl[1], limit |-> pl[2], status |-> f[1], userId |-> f[2]] :
        pl \in {<<1, 2>>, <<2, 2>>},
        f \in {<<"", "">>, <<"PENDING", "u1">>}}

\* the ids DELETE and GET by id are called with: an available item, one
\* deleted before, and an id no item has
ItemIds == {"i1", "i4", "i9"}

\* a request of the item and offer routes as reqs records it
ListReq(route, body, pc, status, data, pagination) ==
    [route |-> route, body |-> body, pc |-> pc, status |-> status,
     data |-> data, pagination |-> pagination]

\* GET /api/v1/items up to its first await: the query is built and
\* Item.find(query).sort().limit().skip() answers, or rejects
GetItemsFind(q, storeOk) ==
    /\ Len(reqs) < MaxListReqs
    /\ IF storeOk
       THEN \E order \in SortedByCreatedAt(items, MatchingItems(items, q)) :
               reqs' = Append(reqs, ListReq(RouteGetItems, q, "count", 0,
                                            PageOf(items, order, q.page, q.limit), <<>>))
       ELSE reqs' = Append(reqs, ListReq(RouteGetItems, q, "done", 500, <<>>, <<>>))
    /\ UNCHANGED <<storeVars, transportVars, tasks, providerLog, pruneLog, crashed>>

\* GET /api/v1/offers up to its first await
GetOffersFind(q, storeOk) ==
    /\ Len(reqs) < MaxListReqs
    /\ IF storeOk
       THEN \E order \in SortedByCreatedAt(offers, MatchingOffers(offers, q)) :
               reqs' = Append(reqs, ListReq(RouteGetOffers, q, "count", 0,
                                            PageOf(offers, order, q.page, q.limit), <<>>))
       ELSE reqs' = Append(reqs, ListReq(RouteGetOffers, q, "done", 500, <<>>, <<>>))
    /\ UNCHANGED <<storeVars, transportVars, tasks, providerLog, pruneLog, crashed>>

\* the second await of both list routes: countDocuments(query) on the
\* store as it is by then, and the answer
ListCount(r, storeOk) ==
    /\ r \in DOMAIN reqs
    /\ reqs[r].pc = "count"
    /\ LET q == reqs[r].body
           total == IF reqs[r].route = RouteGetItems
                    THEN Cardinality(MatchingItems(items, q))
                    ELSE Cardinality(MatchingOffers(offers, q))
       IN  reqs' = [reqs EXCEPT ![r] =
                      IF storeOk
                      THEN [@ EXCEPT !.pc = "done", !.status = 200,
                                     !.pagination = Pagination(q.page, q.limit, total)]
                      ELSE [@ EXCEPT !.pc = "done", !.status = 500, !.data = <<>>]]
    /\ UNCHANGED <<storeVars, transportVars, tasks, providerLog, pruneLog, crashed>>

\* GET /api/v1/items/:itemId
GetItem(itemId, storeOk) ==
    /\ Len(reqs) < MaxListReqs
    /\ reqs' = Append(reqs,
                  IF ~storeOk THEN ListReq(RouteGetItem, itemId, "done", 500, <<>>, <<>>)
                  ELSE IF FindOne(items, itemId) = <<>>
                  THEN ListReq(RouteGetItem, itemId, "done", 404, <<>>, <<>>)
                  ELSE ListReq(RouteGetItem, itemId, "done", 200, FindOne(items, itemId)[1], <<>>))
    /\ UNCHANGED <<storeVars, transportVars, tasks, providerLog, pruneLog, crashed>>

\* Item.deleteOne({ id: itemId }): the document is removed
DeleteItemUpdateRemoving(coll, itemId, now) ==
    LET Stays(doc) == doc.id # itemId
    IN  SelectSeq(coll, Stays)

\* Item.findOneAndUpdate({ id: itemId }, { isAvailable: false, updatedAt: new Date() })
DeleteItemUpdate(coll, itemId, now) ==
    IF Matching(coll, itemId) = {} THEN coll
    ELSE [coll EXCEPT ![Min(Matching(coll, itemId))] =
             [@ EXCEPT !.isAvailable = FALSE, !.updatedAt = now]]

\* DELETE /api/v1/items/:itemId; now is the value of new Date(); the data
\* of the answer is the document as updated ({ new: true })
DeleteItem(itemId, now, storeOk) ==
    /\ Len(reqs) < MaxListReqs
    /\ LET updated == DeleteItemUpdate(items, itemId, now)
           found == FindOne(updated, itemId)
       IN  IF ~storeOk
           THEN /\ reqs' = Append(reqs, ListReq(RouteDeleteItem, itemId, "done", 500, <<>>, <<>>))
                /\ UNCHANGED items
           ELSE IF FindOne(items, itemId) = <<>>
           THEN /\ reqs' = Append(reqs, ListReq(RouteDeleteItem, itemId, "done", 404, <<>>, <<>>))
                /\ items' = updated
           ELSE /\ reqs' = Append(reqs, ListReq(RouteDeleteItem, itemId, "done", 200,
                                                IF found = <<>> THEN <<>> ELSE found[1],
                                                <<>>))
                /\ items' = updated
    /\ UNCHANGED <<users, offers, recordVars, transportVars, tasks, providerLog, pruneLog, crashed>>

\* the times new Date() may give a deletion
DeleteTimes == {9}

\* an offer document with its creation time
OfferDoc(id, fromUserId, toUserId, status, createdAt) ==
    [id |-> id, fromUserId |-> fromUserId, toUserId |-> toUserId,
     requestedItemId |-> "i1", status |-> status, message |-> "",
     createdAt |-> createdAt]

\* a stored catalogue: items of two categories and two owners, one of them
\* deleted before, with "gu" in the name or in the description in either
\* case; the creation time of i5 is that of i3 or a later one
InitItems ==
    /\ users = <<User("u1", "Ann", "ann@example.com", <<>>),
                 User("u2", "Bob", "bob@example.com", <<>>)>>
    /\ \E created \in {2, 5} :
         items = <<ItemDoc("i1", <<"G", "u">>, <<"o", "k">>, "Music", "u1", TRUE, 3),
                   ItemDoc("i2", <<"B", "o">>, <<"a", "g", "u">>, "Books", "u1", TRUE, 1),
                   ItemDoc("i3", <<"G", "U">>, <<"o", "k">>, "Books", "u2", TRUE, 2),
                   ItemDoc("i4", <<"G", "u">>, <<"o", "k">>, "Books", "u2", FALSE, 4),
                   ItemDoc("i5", <<"b", "o">>, <<"o", "k">>, "Books", "u1", TRUE, created)>>
    /\ offers = <<OfferDoc("o1", "u2", "u1", "PENDING", 1),
                  OfferDoc("o2", "u1", "u2", "ACCEPTED", 2),
                  OfferDoc("o3", "u1", "u2", "PENDING", 3)>>
    /\ env = Env(NoValue, NoValue)
    /\ InitProcess

NextItems ==
    \/ \E q \in ItemQueries, storeOk \in BOOLEAN : GetItemsFind(q, storeOk)
    \/ \E q \in OfferQueries, storeOk \in BOOLEAN : GetOffersFind(q, storeOk)
    \/ \E r \in DOMAIN reqs, storeOk \in BOOLEAN : ListCount(r, storeOk)
    \/ \E itemId \in ItemIds, storeOk \in BOOLEAN : GetItem(itemId, storeOk)
    \/ \E itemId \in ItemIds, now \in DeleteTimes, storeOk \in BOOLEAN :
          DeleteItem(itemId, now, storeOk)

SpecItems == InitItems /\ [][NextItems]_vars

-----------------------------------------------------------------------------
(* The user routes *)

RoutePostUser == "POST /api/v1/users"
RoutePutUser == "PUT /api/v1/users/:userId"

\* request bodies of PUT /api/v1/users/:userId: a body is the record of the
\* fields it carries -- a new name, an empty token list, a name and tokens
PutUserBodies ==
    {[name |-> "Anna"],
     [fcmTokens |-> <<>>],
     [name |-> "Anna", fcmTokens |-> <<1, 1>>]}

\* request bodies of POST /api/v1/users: a new user, and an id already taken
PostUserBodies ==
    {[id |-> "u3", name |-> "Cy", email |-> "cy@example.com"],
     [id |-> "u1", name |-> "Al", email |-> "al@example.com"]}

\* { ...req.body, updatedAt: new Date() } as an update document: every
\* field of the schema that the body carries is set to the body's value
SetFields(doc, body) ==
    [f \in DOMAIN doc |-> IF f \in DOMAIN body THEN body[f] ELSE doc[f]]

\* User.findOneAndUpdate({ id: userId }, { ...req.body, updatedAt }, { new: true })
PutUserUpdate(coll, userId, body) ==
    IF Matching(coll, userId) = {} THEN coll
    ELSE [coll EXCEPT ![Min(Matching(coll, userId))] = SetFields(@, body)]

\* the unique indexes on id and email admit the update: no other document
\* has the id or the email the updated one would have
PutUserAdmitted(coll, userId, body) ==
    \/ Matching(coll, userId) = {}
    \/ LET pos == Min(Matching(coll, userId))
           doc == SetFields(coll[pos], body)
       IN  \A i \in DOMAIN coll \ {pos} : coll[i].id # doc.id /\ coll[i].email # doc.email

\* PUT /api/v1/users/:userId
PutUser(userId, body, storeOk) ==
    /\ LET updated == PutUserUpdate(users, userId, body)
           answer(status, data) ==
               Append(reqs, [route |-> RoutePutUser, body |-> body, pc |-> "done",
                             status |-> status, data |-> data])
       IN  IF ~storeOk \/ ~PutUserAdmitted(users, userId, body)
           THEN reqs' = answer(500, <<>>) /\ UNCHANGED users
           ELSE IF FindOne(users, userId) = <<>>
           THEN reqs' = answer(404, <<>>) /\ users' = updated
           ELSE /\ reqs' = answer(200, SetFields(FindOne(users, userId)[1], body))
                /\ users' = updated
    /\ UNCHANGED <<items, offers, recordVars, transportVars, tasks, providerLog, pruneLog, crashed>>

\* new User(req.body): the fields of the body, the schema defaults for the rest
NewUser(body) ==
    SetFields(User(body.id, body.name, body.email, <<>>), body)

\* a save that checks the required fields and no unique index
SaveUserWithoutIndex(coll, doc, storeOk) ==
    IF storeOk /\ doc.id # "" /\ doc.name # "" /\ doc.email # ""
    THEN [ok |-> TRUE, coll |-> Append(coll, doc)]
    ELSE [ok |-> FALSE, coll |-> coll]

\* user.save(): the required fields, then the unique indexes on id and email
SaveUser(coll, doc, storeOk) ==
    IF /\ storeOk
       /\ doc.id # "" /\ doc.name # "" /\ doc.email # ""
       /\ \A i \in DOMAIN coll : coll[i].id # doc.id /\ coll[i].email # doc.email
    THEN [ok |-> TRUE, coll |-> Append(coll, doc)]
    ELSE [ok |-> FALSE, coll |-> coll]

\* POST /api/v1/users
PostUser(body, storeOk) ==
    /\ LET result == SaveUser(users, NewUser(body), storeOk)
       IN  /\ users' = result.coll
           /\ reqs' = Append(reqs, [route |-> RoutePostUser, body |-> body, pc |-> "done",
                                    status |-> IF result.ok THEN 201 ELSE 500,
                                    data |-> IF result.ok THEN NewUser(body) ELSE <<>>])
    /\ UNCHANGED <<items, offers, recordVars, transportVars, tasks, providerLog, pruneLog, crashed>>

InitApi ==
    /\ users = <<User("u1", "Ann", "ann@example.com", <<1, 2>>),
                 User("u2", "Bob", "bob@example.com", <<>>)>>
    /\ items = <<ItemDoc("i1", <<"G", "u">>, <<"o", "k">>, "Music", "u1", TRUE, 3)>>
    /\ offers = <<>>
    /\ env = Env([layers |-> 0, body |-> "serviceAccount"], NoValue)
    /\ InitProcess

\* the routes that write: a few requests of any of them, and the dispatches
\* they start
NextApi ==
    \/ /\ Len(reqs) < MaxApiReqs
       /\ \/ \E body \in RegisterBodies, storeOk \in BOOLEAN : RegisterToken(body, storeOk)
          \/ \E userId \in {"u1", "u3"}, body \in PutUserBodies, storeOk \in BOOLEAN :
                PutUser(userId, body, storeOk)
          \/ \E body \in PostUserBodies, storeOk \in BOOLEAN : PostUser(body, storeOk)
          \/ \E body \in FullNotifyBodies : NotifyOffer(body)
          \/ \E body \in OfferBodies, storeOk \in BOOLEAN : PostOfferSave(body, storeOk)
          \/ \E itemId \in ItemIds, now \in DeleteTimes, storeOk \in BOOLEAN :
                DeleteItem(itemId, now, storeOk)
    \/ \E r \in DOMAIN reqs : PostOfferRespond(r)
    \/ \E t \in DOMAIN tasks, senderOk \in BOOLEAN, itemOk \in BOOLEAN :
          QueueLookup(t, senderOk, itemOk)
    \/ DispatchStep

SpecApi == InitApi /\ [][NextApi]_vars

-----------------------------------------------------------------------------
(* Item creation and the cleanup of orphaned items *)

RoutePostItem == "POST /api/v1/items"
RouteCleanup == "DELETE /api/v1/admin/cleanup-orphaned-items"

\* new Item(req.body): isAvailable and the dates take the schema defaults;
\* now is the value of Date.now
NewItem(body, now) ==
    ItemDoc(body.id, body.name, body.description, body.category, body.ownerId, TRUE, now)

\* item.save(): the required fields, then the unique index on id
SaveItem(coll, doc, storeOk) ==
    IF /\ storeOk
       /\ doc.id # "" /\ doc.name # <<>> /\ doc.description # <<>>
       /\ doc.category # "" /\ doc.ownerId # ""
       /\ Matching(coll, doc.id) = {}
    THEN [ok |-> TRUE, coll |-> Append(coll, doc)]
    ELSE [ok |-> FALSE, coll |-> coll]

\* POST /api/v1/items
PostItem(body, now, storeOk) ==
    /\ LET result == SaveItem(items, NewItem(body, now), storeOk)
       IN  /\ items' = result.coll
           /\ reqs' = Append(reqs, [route |-> RoutePostItem, body |-> body, pc |-> "done",
                                    status |-> IF result.ok THEN 201 ELSE 500,
                                    data |-> IF result.ok THEN NewItem(body, now) ELSE <<>>])
    /\ UNCHANGED <<users, offers, recordVars, transportVars, tasks, providerLog, pruneLog, crashed>>

\* Model.distinct(field): the set of the values of the field
Distinct(coll, field) == {coll[i][field] : i \in DOMAIN coll}

\* a filter that takes every owner id for orphaned
OrphanedOwnerIdsAll(itemsWithOwners, allUsers) == itemsWithOwners

\* itemsWithOwners.filter(ownerId => !allUsers.includes(ownerId))
OrphanedOwnerIds(itemsWithOwners, allUsers) == itemsWithOwners \ allUsers

\* a cleanup request as reqs records it, with the locals of the handler
CleanupReq(pc, status, data, itemsWithOwners) ==
    [route |-> RouteCleanup, body |-> <<>>, pc |-> pc, status |-> status, data |-> data,
     itemsWithOwners |-> itemsWithOwners, allUsers |-> {}, orphanedOwnerIds |-> {}]

\* the handler up to its first await: Item.distinct('ownerId') answers or rejects
CleanupDistinctOwners(storeOk) ==
    /\ Cardinality(RequestsOf(RouteCleanup)) < MaxCleanupReqs
    /\ reqs' = Append(reqs, IF storeOk
                            THEN CleanupReq("users", 0, <<>>, Distinct(items, "ownerId"))
                            ELSE CleanupReq("done", 500, <<>>, {}))
    /\ UNCHANGED <<storeVars, transportVars, tasks, providerLog, pruneLog, crashed>>

\* User.distinct('id') answers: without orphaned owner ids the handler
\* returns deletedCount 0, otherwise it issues the deleteMany
CleanupDistinctUsers(r, storeOk) ==
    /\ r \in RequestsOf(RouteCleanup)
    /\ reqs[r].pc = "users"
    /\ LET allUsers == Distinct(users, "id")
           orphanedOwnerIds == OrphanedOwnerIds(reqs[r].itemsWithOwners, allUsers)
       IN  reqs' = [reqs EXCEPT ![r] =
                      IF ~storeOk
                      THEN [@ EXCEPT !.pc = "done", !.status = 500]
                      ELSE IF orphanedOwnerIds = {}
                      THEN [@ EXCEPT !.pc = "done", !.status = 200,
                                     !.allUsers = allUsers,
                                     !.data = [deletedCount |-> 0]]
                      ELSE [@ EXCEPT !.pc = "delete",
                                     !.allUsers = allUsers,
                                     !.orphanedOwnerIds = orphanedOwnerIds]]
    /\ UNCHANGED <<storeVars, transportVars, tasks, providerLog, pruneLog, crashed>>

\* Item.deleteMany answers, or rejects, and the handler responds
CleanupDeleteMany(r, storeOk) ==
    /\ r \in RequestsOf(RouteCleanup)
    /\ reqs[r].pc = "delete"
    /\ LET Stays(doc) == doc.ownerId \notin reqs[r].orphanedOwnerIds
           left == SelectSeq(items, Stays)
       IN  IF storeOk
           THEN /\ items' = left
                /\ reqs' = [reqs EXCEPT ![r] =
                              [@ EXCEPT !.pc = "done", !.status = 200,
                                        !.data = [deletedCount |-> Len(items) - Len(left),
                                                  orphanedOwnerIds |-> reqs[r].orphanedOwnerIds]]]
           ELSE /\ items' = items
                /\ reqs' = [reqs EXCEPT ![r] = [@ EXCEPT !.pc = "done", !.status = 500]]
    /\ UNCHANGED <<users, offers, recordVars, transportVars, tasks, providerLog, pruneLog, crashed>>

\* the creation times new Date() may give a document
CreateTimes == {7}

\* catalogues with and without orphaned items: u8 and u9 are no users
InitCleanup ==
    /\ users = <<User("u1", "Ann", "ann@example.com", <<>>),
                 User("u2", "Bob", "bob@example.com", <<>>)>>
    /\ items \in
         {<<ItemDoc("i1", <<"G", "u">>, <<"o", "k">>, "Music", "u1", TRUE, 3)>>,
          <<ItemDoc("i1", <<"G", "u">>, <<"o", "k">>, "Music", "u1", TRUE, 3),
            ItemDoc("i2", <<"B", "o">>, <<"o", "k">>, "Books", "u9", TRUE, 1),
            ItemDoc("i3", <<"G", "U">>, <<"o", "k">>, "Books", "u9", FALSE, 2),
            ItemDoc("i4", <<"G", "u">>, <<"o", "k">>, "Books", "u8", TRUE, 4)>>}
    /\ offers = <<>>
    /\ env = Env(NoValue, NoValue)
    /\ InitProcess

\* the requests that create users and items
CleanupCreates == RequestsOf(RoutePostUser) \cup RequestsOf(RoutePostItem)

\* cleanup requests, and user and item creations between their steps: the
\* user is the owner of orphaned items or has an id that is taken, the item
\* is of a missing or of an existing owner
NextCleanup ==
    \/ \E storeOk \in BOOLEAN : CleanupDistinctOwners(storeOk)
    \/ \E r \in DOMAIN reqs, storeOk \in BOOLEAN : CleanupDistinctUsers(r, storeOk)
    \/ \E r \in DOMAIN reqs, storeOk \in BOOLEAN : CleanupDeleteMany(r, storeOk)
    \/ \E body \in {[id |-> "u9", name |-> "Ida", email |-> "ida@example.com"],
                     [id |-> "u1", name |-> "Al", email |-> "al@example.com"]},
          storeOk \in BOOLEAN :
          /\ Cardinality(CleanupCreates) < MaxCleanupCreates
          /\ PostUser(body, storeOk)
    \/ \E body \in {[id |-> "i5", name |-> <<"B", "o">>, description |-> <<"o", "k">>,
                      category |-> "Books", ownerId |-> "u9"],
                     [id |-> "i6", name |-> <<"G", "u">>, description |-> <<"o", "k">>,
                      category |-> "Music", ownerId |-> "u2"]},
          now \in CreateTimes, storeOk \in BOOLEAN :
          /\ Cardinality(CleanupCreates) < MaxCleanupCreates
          /\ PostItem(body, now, storeOk)

SpecCleanup == InitCleanup /\ [][NextCleanup]_vars

-----------------------------------------------------------------------------
(* PUT /api/v1/offers/:offerId *)

RoutePutOffer == "PUT /api/v1/offers/:offerId"

\* Offer.findOneAndUpdate({ id: offerId }, { ...req.body, updatedAt }, { new: true }):
\* the fields of the body are set on the first matching document without
\* schema validation (runValidators is not set); the unique index on id
\* rejects an update that would give two documents the same id
PutOfferUpdate(coll, offerId, body) ==
    IF Matching(coll, offerId) = {} THEN [ok |-> TRUE, coll |-> coll]
    ELSE LET pos == Min(Matching(coll, offerId))
             doc == SetFields(coll[pos], body)
         IN  IF \E i \in DOMAIN coll : i # pos /\ coll[i].id = doc.id
             THEN [ok |-> FALSE, coll |-> coll]
             ELSE [ok |-> TRUE, coll |-> [coll EXCEPT ![pos] = doc]]

\* the whole handler: it starts no dispatch
PutOffer(offerId, body, storeOk) ==
    /\ LET result == PutOfferUpdate(offers, offerId, body)
           answer(status, data) ==
               Append(reqs, [route |-> RoutePutOffer, offerId |-> offerId, body |-> body,
                             pc |-> "done", status |-> status, data |-> data])
       IN  IF ~storeOk \/ ~result.ok
           THEN reqs' = answer(500, <<>>) /\ UNCHANGED offers
           ELSE IF FindOne(offers, offerId) = <<>>
           THEN reqs' = answer(404, <<>>) /\ offers' = result.coll
           ELSE /\ reqs' = answer(200, SetFields(FindOne(offers, offerId)[1], body))
                /\ offers' = result.coll
    /\ UNCHANGED <<users, items, recordVars, transportVars, tasks, providerLog, pruneLog, crashed>>

InitOffers ==
    /\ users = <<User("u1", "Ann", "ann@example.com", <<2>>),
                 User("u2", "Bob", "bob@example.com", <<>>)>>
    /\ items = <<[id |-> "i1", name |-> "Guitar", ownerId |-> "u1", isAvailable |-> TRUE]>>
    /\ offers = <<>>
    /\ env = Env([layers |-> 0, body |-> "serviceAccount"], NoValue)
    /\ InitProcess

\* creations of offer o1, updates of the offer that is created and of one
\* that is not, and the dispatches the creations start; the body of an
\* update has a status of the enum, a status outside the enum, or another id
NextOffers ==
    \/ \E body \in {b \in OfferBodies : b.id = "o1"}, storeOk \in BOOLEAN :
          PostOfferSave(body, storeOk)
    \/ \E r \in DOMAIN reqs : PostOfferRespond(r)
    \/ \E offerId \in {"o1", "o9"},
          body \in {[status |-> "ACCEPTED"], [status |-> "DONE"], [id |-> "o2"]},
          storeOk \in BOOLEAN :
          /\ Cardinality(RequestsOf(RoutePutOffer)) < MaxOfferPuts
          /\ PutOffer(offerId, body, storeOk)
    \/ \E t \in DOMAIN tasks, senderOk \in BOOLEAN, itemOk \in BOOLEAN :
          QueueLookup(t, senderOk, itemOk)
    \/ DispatchStep

SpecOffers == InitOffers /\ [][NextOffers]_vars

-----------------------------------------------------------------------------
(* Creation requests that run concurrently *)

RoutePostMessage == "POST /api/v1/chats/:chatId/messages"
RoutePostTrade == "POST /api/v1/trades/history"

\* the routes that create a document with new Model(req.body) and save()
CreateRoutes == {RoutePostUser, RoutePostItem, RoutePostMessage, RoutePostTrade}

\* the document a creation request builds: new User(req.body),
\* new Item(req.body), new ChatMessage({ ...req.body, chatId: req.params.chatId })
\* and new TradeHistory(req.body); a body carries the chat id of the path,
\* if any, as chatId
NewDoc(route, body, now) ==
    CASE route = RoutePostUser -> NewUser(body)
      [] route = RoutePostItem -> NewItem(body, now)
      [] route = RoutePostMessage ->
           [id |-> body.id, chatId |-> body.chatId, senderId |-> body.senderId,
            message |-> body.message]
      [] route = RoutePostTrade ->
           [id |-> body.id, offerId |-> body.offerId, completedAt |-> body.completedAt]

\* save() of the document of a creation request on its collection; a
\* message and a trade record are checked for their required fields (an
\* absent completedAt is 0), then for the unique index on id
SaveDoc(route, doc, storeOk) ==
    LET insert(coll, valid) ==
            IF storeOk /\ valid /\ Matching(coll, doc.id) = {}
            THEN [ok |-> TRUE, coll |-> Append(coll, doc)]
            ELSE [ok |-> FALSE, coll |-> coll]
    IN  CASE route = RoutePostUser -> SaveUser(users, doc, storeOk)
          [] route = RoutePostItem -> SaveItem(items, doc, storeOk)
          [] route = RoutePostMessage ->
               insert(chatMessages,
                      doc.id # "" /\ doc.chatId # "" /\ doc.senderId # ""
                         /\ doc.message # "")
          [] route = RoutePostTrade ->
               insert(tradeHistory,
                      doc.id # "" /\ doc.offerId # "" /\ doc.completedAt # 0)

\* a creation request arrives and the store answers its save(): the
\* insert is atomic in the store; the handler resumes in a later step
CreateSave(route, body, now, storeOk) ==
    /\ LET doc == NewDoc(route, body, now)
           result == SaveDoc(route, doc, storeOk)
       IN  /\ users' = IF route = RoutePostUser THEN result.coll ELSE users
           /\ items' = IF route = RoutePostItem THEN result.coll ELSE items
           /\ chatMessages' = IF route = RoutePostMessage THEN result.coll ELSE chatMessages
           /\ tradeHistory' = IF route = RoutePostTrade THEN result.coll ELSE tradeHistory
           /\ reqs' = Append(reqs, [route |-> route, body |-> body,
                                    pc |-> IF result.ok THEN "saved" ELSE "failed",
                                    saveOk |-> result.ok, doc |-> doc,
                                    status |-> 0, data |-> <<>>])
    /\ UNCHANGED <<offers, chats, transportVars, tasks, providerLog, pruneLog, crashed>>

\* the handler resumes after the save: 201 with the document, or the catch
\* answers 500; the message route has one more await before its answer
CreateRespond(r) ==
    /\ r \in DOMAIN reqs
    /\ reqs[r].route \in CreateRoutes
    /\ \/ reqs[r].pc = "failed"
       \/ reqs[r].pc = "saved" /\ reqs[r].route # RoutePostMessage
    /\ reqs' = [reqs EXCEPT ![r] =
                  IF reqs[r].pc = "saved"
                  THEN [@ EXCEPT !.pc = "done", !.status = 201, !.data = reqs[r].doc]
                  ELSE [@ EXCEPT !.pc = "done", !.status = 500]]
    /\ UNCHANGED <<storeVars, transportVars, tasks, providerLog, pruneLog, crashed>>

\* the second await of the message route,
\* Chat.findOneAndUpdate({ id: chatId }, { lastMessageAt: new Date() }), and
\* its answer: 201 when the update of the chat answered, whether or not the
\* chat exists, 500 when it rejected
MessageTouchChat(r, now, storeOk) ==
    /\ r \in RequestsOf(RoutePostMessage)
    /\ reqs[r].pc = "saved"
    /\ IF storeOk
       THEN /\ chats' = LET found == Matching(chats, reqs[r].doc.chatId)
                          IN  IF found = {} THEN chats
                              ELSE [chats EXCEPT ![Min(found)].lastMessageAt = now]
            /\ reqs' = [reqs EXCEPT ![r] =
                          [@ EXCEPT !.pc = "done", !.status = 201, !.data = reqs[r].doc]]
       ELSE /\ chats' = chats
            /\ reqs' = [reqs EXCEPT ![r] = [@ EXCEPT !.pc = "done", !.status = 500]]
    /\ UNCHANGED <<users, items, offers, chatMessages, tradeHistory,
                   transportVars, tasks, providerLog, pruneLog, crashed>>

InitCreate ==
    /\ users = <<User("u1", "Ann", "ann@example.com", <<2>>),
                 User("u2", "Bob", "bob@example.com", <<>>)>>
    /\ items = <<ItemDoc("i1", <<"G", "u">>, <<"o", "k">>, "Music", "u1", TRUE, 3)>>
    /\ offers = <<>>
    /\ env = Env([layers |-> 0, body |-> "serviceAccount"], NoValue)
    /\ InitProcess

\* creation requests of every route and user updates, handled
\* concurrently; the users created have a new id and email, a second id
\* with the same email, or an id that is taken; an update sets a name, the
\* email of another user, or the id a creation request may take
NextCreate ==
    \/ /\ Len(reqs) < MaxCreateReqs
       /\ \/ \E route \in CreateRoutes :
               \E body \in
                     CASE route = RoutePostUser ->
                            {[id |-> "u3", name |-> "Cy", email |-> "cy@example.com"],
                             [id |-> "u4", name |-> "Di", email |-> "cy@example.com"],
                             [id |-> "u1", name |-> "Al", email |-> "al@example.com"]}
                       [] route = RoutePostItem ->
                            {[id |-> "i5", name |-> <<"B", "o">>,
                              description |-> <<"o", "k">>,
                              category |-> "Books", ownerId |-> "u1"]}
                       [] route = RoutePostMessage ->
                            {[id |-> "m1", chatId |-> "c1", senderId |-> "u1",
                              message |-> "hi"]}
                       [] route = RoutePostTrade ->
                            {[id |-> "t1", offerId |-> "o1", completedAt |-> 5]},
                  now \in CreateTimes, storeOk \in BOOLEAN :
                  CreateSave(route, body, now, storeOk)
          \/ \E body \in {b \in OfferBodies : b.id = "o1"}, storeOk \in BOOLEAN :
                PostOfferSave(body, storeOk)
          \/ \E body \in {[name |-> "Anna"], [email |-> "bob@example.com"], [id |-> "u3"]},
                storeOk \in BOOLEAN :
                PutUser("u1", body, storeOk)
    \/ \E r \in DOMAIN reqs : CreateRespond(r)
    \/ \E r \in DOMAIN reqs, now \in CreateTimes, storeOk \in BOOLEAN :
          MessageTouchChat(r, now, storeOk)
    \/ \E r \in DOMAIN reqs : PostOfferRespond(r)
    \/ \E t \in DOMAIN tasks, senderOk \in BOOLEAN, itemOk \in BOOLEAN :
          QueueLookup(t, senderOk, itemOk)
    \/ DispatchStep

SpecCreate == InitCreate /\ [][NextCreate]_vars

\* the tokens of u1 under SpecConcurrent: the provider may fail two of them
ConcurrentTokens == <<1, 2, chunkSize + 1>>

\* a usable credential, none, and JSON that is no service account
ConcurrentEnvs ==
    {Env([layers |-> 0, body |-> "serviceAccount"], NoValue),
     Env(NoValue, NoValue),
     Env(NoValue, [layers |-> 1, body |-> "otherJson"])}

InitConcurrent ==
    /\ users = <<User("u1", "Ann", "ann@example.com", ConcurrentTokens),
                 User("u2", "Bob", "bob@example.com", <<>>)>>
    /\ items = <<[id |-> "i1", name |-> "Guitar", ownerId |-> "u1", isAvailable |-> TRUE]>>
    /\ offers = <<>>
    /\ env \in ConcurrentEnvs
    /\ InitProcess

\* several dispatches to the same recipient, running at the same time
NextConcurrent ==
    \/ \E body \in FullNotifyBodies :
          /\ Cardinality(RequestsOf(RouteNotifyOffers)) < MaxConcurrent
          /\ body.recipientUserId = "u1"
          /\ NotifyOffer(body)
    \/ DispatchStep

SpecConcurrent == InitConcurrent /\ [][NextConcurrent]_vars

-----------------------------------------------------------------------------
(* Properties of offer creation, checked under Spec *)

\* the dispatches the wrapper started for request r, in a sequence of dispatches
QueueTasksIn(taskSeq, r) ==
    {t \in DOMAIN taskSeq : taskSeq[t].req = r /\ taskSeq[t].caller = "queue"}

\* C1: a finished POST /api/v1/offers request is answered 201 with the saved
\* offer exactly when its save succeeded and 500 exactly when it failed, in
\* every state that follows, whatever its dispatch does or fails to do.
OfferResponseReflectsSave ==
    \A r \in RequestsOf(RouteOffers) :
        /\ reqs[r].pc # "done" => reqs[r].status = 0
        /\ reqs[r].pc = "done" =>
              /\ reqs[r].saveOk <=> reqs[r].status = 201
              /\ ~reqs[r].saveOk <=> reqs[r].status = 500
              /\ reqs[r].saveOk =>
                    /\ reqs[r].data = NewOffer(reqs[r].body)
                    /\ reqs[r].data \in Range(offers)

\* an offer was answered 201 although its dispatch failed, and another
\* request was answered 500
OfferResponseReflectsSaveWitness ==
    /\ \E r \in RequestsOf(RouteOffers) :
          /\ reqs[r].status = 201
          /\ \E t \in QueueTasksIn(tasks, r) :
                tasks[t].pc = "done" /\ tasks[t].outcome \in Throws
    /\ \E r \in RequestsOf(RouteOffers) : reqs[r].status = 500

\* C2: the dispatcher is started once for a request whose save succeeded,
\* in the step that answers it and after the offer is in the store, and
\* never for a request whose save failed or is not yet answered; at the step
\* that answers 201 the dispatch just started has completed none of its steps.
DispatcherStartedOncePerSavedOfferStep ==
    /\ \A r \in {x \in DOMAIN reqs' : reqs'[x].route = RouteOffers} :
          /\ Cardinality(QueueTasksIn(tasks', r)) =
                IF reqs'[r].pc = "done" /\ reqs'[r].saveOk THEN 1 ELSE 0
          /\ \A t \in QueueTasksIn(tasks', r) :
                \E i \in DOMAIN offers' : offers'[i].id = tasks'[t].offerId
    /\ \A r \in RequestsOf(RouteOffers) :
          (reqs[r].status = 0 /\ reqs'[r].status = 201) =>
              /\ QueueTasksIn(tasks, r) = {}
              /\ \A t \in QueueTasksIn(tasks', r) :
                    /\ tasks'[t].pc = "lookup"
                    /\ ~tasks'[t].lookedUp
                    /\ \A i \in DOMAIN providerLog' : providerLog'[i].task # t

DispatcherStartedOncePerSavedOffer == [][DispatcherStartedOncePerSavedOfferStep]_vars

\* two requests are answered, one saved with its dispatch under way and one
\* whose save failed
DispatcherStartedOncePerSavedOfferWitness ==
    /\ \E r \in RequestsOf(RouteOffers) :
          /\ reqs[r].pc = "done" /\ reqs[r].saveOk
          /\ \E t \in QueueTasksIn(tasks, r) : tasks[t].pc = "sending"
    /\ \E r \in RequestsOf(RouteOffers) : reqs[r].pc = "done" /\ ~reqs[r].saveOk

\* C3: the promise of queueOfferNotificationForOffer never rejects: every
\* finished wrapper has resolved, whichever lookup, transport or send
\* failure ended it, and no rejection is left unhandled in the process.
QueueNeverRejects ==
    /\ ~crashed
    /\ \A t \in DOMAIN tasks :
          (tasks[t].caller = "queue" /\ tasks[t].pc = "done") =>
              tasks[t].settled = "resolved"

\* one wrapper has ended on a failed batch send and another on a failed lookup
QueueNeverRejectsWitness ==
    /\ \E t \in DOMAIN tasks :
          /\ tasks[t].caller = "queue" /\ tasks[t].pc = "done"
          /\ tasks[t].outcome = "provider_error"
    /\ \E t \in DOMAIN tasks :
          /\ tasks[t].caller = "queue" /\ tasks[t].pc = "done"
          /\ tasks[t].outcome = "store_error" /\ ~tasks[t].lookedUp

-----------------------------------------------------------------------------
(* Properties of a dispatch, checked under SpecNotify *)

\* no stored document with that id holds a non-empty token; true as well
\* when no document has that id
HoldsNoToken(coll, userId) ==
    \A i \in Matching(coll, userId) :
        \A k \in DOMAIN coll[i].fcmTokens : coll[i].fcmTokens[k] = EmptyToken

\* the stored token list of a user, empty when the user does not exist
StoredTokens(coll, userId) ==
    IF Matching(coll, userId) = {} THEN <<>>
    ELSE coll[Min(Matching(coll, userId))].fcmTokens

\* the provider calls of dispatch t, in send order
CallsIn(log, t) ==
    LET IsOfTask(call) == call.task = t
    IN  SelectSeq(log, IsOfTask)

\* the tokens for which the provider reported to dispatch t a failure with
\* the unregistered-token or the invalid-token code
ReportedInvalid(log, t) ==
    UNION {{token \in DOMAIN log[i].errors :
               log[i].errors[token] \in {CodeUnregistered, CodeInvalidToken}} :
           i \in {j \in DOMAIN log : log[j].task = t}}

\* C4: when the recipient lookup of a dispatch answers and the recipient has
\* no token (no document, an empty list, or only empty entries), the dispatch
\* ends in that step with the skipped/no_tokens result, nothing is raised,
\* the provider is not called and no stored document changes.
NoTokensSkippedStep ==
    \A t \in DOMAIN tasks :
        ( /\ tasks[t].pc = "recipient"
          /\ tasks'[t].pc # "recipient"
          /\ tasks'[t].lookedUp
          /\ HoldsNoToken(users, tasks[t].recipientUserId) )
        => /\ tasks'[t].pc = "done"
           /\ tasks'[t].outcome = "skipped"
           /\ tasks'[t].settled = "resolved"
           /\ providerLog' = providerLog
           /\ users' = users
           /\ ~crashed'

NoTokensSkipped == [][NoTokensSkippedStep]_vars

\* a dispatch to a user that does not exist was skipped
NoTokensSkippedWitness ==
    \E t \in DOMAIN tasks :
        /\ tasks[t].pc = "done" /\ tasks[t].outcome = "skipped"
        /\ Matching(users, tasks[t].recipientUserId) = {}
        /\ \A i \in DOMAIN providerLog : providerLog[i].task # t

\* C5: in the step that completes a dispatch with a result (its pruning
\* write, if any, not having failed), invalidTokens holds exactly the tokens
\* reported with an unregistered-token or invalid-token code, each once, none
\* of them is left in the recipient's token list, and every other token of
\* the recipient is still in it.
InvalidTokensPrunedStep ==
    \A t \in DOMAIN tasks :
        ( /\ tasks[t].pc # "done"
          /\ tasks'[t].pc = "done"
          /\ tasks'[t].outcome = "sent"
          /\ tasks'[t].pruned # "failed" )
        => LET bad == ReportedInvalid(providerLog', t)
               before == Range(StoredTokens(users, tasks[t].recipientUserId))
               after == Range(StoredTokens(users', tasks[t].recipientUserId))
           IN  /\ Range(tasks'[t].invalidTokens) = bad
               /\ Len(tasks'[t].invalidTokens) = Cardinality(bad)
               /\ after \cap bad = {}
               /\ before \ bad \subseteq after
               /\ after \subseteq before

InvalidTokensPruned == [][InvalidTokensPrunedStep]_vars

\* a dispatch over tokens 1 and 2 was told that 2 is invalid or unregistered:
\* it returned invalidTokens = [2] and the recipient holds token 1 and not 2
InvalidTokensPrunedWitness ==
    \E t \in DOMAIN tasks :
        /\ tasks[t].pc = "done" /\ tasks[t].outcome = "sent"
        /\ tasks[t].pruned = "ok"
        /\ tasks[t].uniqueTokens = <<1, 2>>
        /\ tasks[t].invalidTokens = <<2>>
        /\ Range(StoredTokens(users, tasks[t].recipientUserId)) = {1}

\* C9: a finished POST /api/v1/notifications/offers request has status 400
\* exactly when one of the four required fields is missing, and then no
\* dispatch was started for it; otherwise it started one dispatch and has
\* 404 exactly when that returned skipped, 503 exactly when it failed as not
\* configured, and 200 with the three counts exactly when it returned a
\* result, whatever the counts are.
NotifyOfferStatuses ==
    \A r \in RequestsOf(RouteNotifyOffers) :
        LET body == reqs[r].body
            missing == \E f \in {"offerId", "recipientUserId", "senderUserId", "senderName"} :
                          body[f] = ""
        IN  /\ missing => reqs[r].pc = "done" /\ reqs[r].status = 400 /\ TasksOf(r) = {}
            /\ ~missing => Cardinality(TasksOf(r)) = 1
            /\ (~missing /\ reqs[r].pc # "done") =>
                  /\ reqs[r].status = 0
                  /\ \A t \in TasksOf(r) : tasks[t].pc # "done"
            /\ (~missing /\ reqs[r].pc = "done") =>
                  \A t \in TasksOf(r) :
                     /\ tasks[t].pc = "done"
                     /\ reqs[r].status \in {200, 404, 500, 503}
                     /\ reqs[r].status = 404 <=> tasks[t].outcome = "skipped"
                     /\ reqs[r].status = 503 <=> tasks[t].outcome = "not_configured"
                     /\ reqs[r].status = 200 <=> tasks[t].outcome = "sent"
                     /\ reqs[r].status = 200 =>
                           reqs[r].data = [successCount |-> tasks[t].successCount,
                                           failureCount |-> tasks[t].failureCount,
                                           invalidTokens |-> tasks[t].invalidTokens]

\* a request was answered 200 although every delivery failed
NotifyOfferStatusesWitness ==
    \E r \in RequestsOf(RouteNotifyOffers) :
        /\ reqs[r].pc = "done" /\ reqs[r].status = 200
        /\ reqs[r].data.successCount = 0
        /\ reqs[r].data.failureCount > 0

\* C10: a POST /api/v1/notifications/token request without userId or token
\* is answered 400; one whose userId no user has is answered 404 (500 when
\* the store fails); in each of these cases no collection changes: no user
\* document is added, no token list and no device mapping is modified.
TokenRouteRejectsStep ==
    (Len(reqs') = Len(reqs) + 1 /\ Last(reqs').route = RouteToken) =>
        LET body == Last(reqs').body
            status == Last(reqs').status
            missing == body.userId = "" \/ body.token = EmptyToken
            unknown == \A i \in DOMAIN users : users[i].id # body.userId
        IN  /\ missing => status = 400
            /\ (~missing /\ unknown) => status \in {404, 500}
            /\ (~missing /\ ~unknown) => status \in {200, 500}
            /\ (missing \/ unknown \/ status # 200) =>
                  /\ users' = users
                  /\ items' = items
                  /\ offers' = offers

TokenRouteRejects == [][TokenRouteRejectsStep]_vars

\* a registration for an unknown user was answered 404
TokenRouteRejectsWitness ==
    \E r \in RequestsOf(RouteToken) :
        /\ reqs[r].status = 404
        /\ reqs[r].body.userId = "u3"
        /\ \A i \in DOMAIN users : users[i].id # "u3"

-----------------------------------------------------------------------------
(* Properties of batching, checked under SpecBatch *)

\* the concatenation of the token lists of a sequence of provider calls
RECURSIVE TokensSent(_)
TokensSent(calls) ==
    IF calls = <<>> THEN <<>> ELSE Head(calls).tokens \o TokensSent(Tail(calls))

\* the sum over a sequence of provider calls of the failures reported
RECURSIVE FailuresReported(_)
FailuresReported(calls) ==
    IF calls = <<>> THEN 0
    ELSE Cardinality(DOMAIN Head(calls).errors) + FailuresReported(Tail(calls))

\* C6: a dispatch that returned a result over n >= 1 distinct tokens called
\* the provider ceil(n / 500) times; every batch is non-empty and has at
\* most 500 tokens, every batch but the last has 500, no token is in two
\* batches, and the batches in send order make up the deduplicated list.
BatchesPartitionTokens ==
    /\ chunkSize = 500
    /\ \A t \in DOMAIN tasks :
          (tasks[t].pc = "done" /\ tasks[t].outcome = "sent") =>
              LET calls == CallsIn(providerLog, t)
                  sent == TokensSent(calls)
                  n == Cardinality(Range(tasks[t].recipientTokens) \ {EmptyToken})
              IN  /\ n >= 1
                  /\ Len(calls) = (n + chunkSize - 1) \div chunkSize
                  /\ \A k \in DOMAIN calls :
                        /\ Len(calls[k].tokens) >= 1
                        /\ Len(calls[k].tokens) <= chunkSize
                        /\ k < Len(calls) => Len(calls[k].tokens) = chunkSize
                  /\ Len(sent) = n
                  /\ Range(sent) = Range(tasks[t].recipientTokens) \ {EmptyToken}
                  /\ sent = tasks[t].uniqueTokens

\* 501 tokens were sent as a batch of 500 and a batch of 1
BatchesPartitionTokensWitness ==
    \E t \in DOMAIN tasks :
        /\ tasks[t].pc = "done" /\ tasks[t].outcome = "sent"
        /\ Len(tasks[t].uniqueTokens) = 501
        /\ LET calls == CallsIn(providerLog, t)
           IN  /\ Len(calls) = 2
               /\ Len(calls[1].tokens) = 500
               /\ Len(calls[2].tokens) = 1

\* C7: the result of a dispatch that returned has as successCount the sum
\* of the successes and as failureCount the sum of the failures the provider
\* reported for its batches; the two add up to the number of distinct
\* tokens sent, and invalidTokens is no longer than failureCount.
ResultAggregatesBatches ==
    \A t \in DOMAIN tasks :
        (tasks[t].pc = "done" /\ tasks[t].outcome = "sent") =>
            LET calls == CallsIn(providerLog, t)
            IN  /\ tasks[t].failureCount = FailuresReported(calls)
                /\ tasks[t].successCount = Len(TokensSent(calls)) - FailuresReported(calls)
                /\ tasks[t].successCount + tasks[t].failureCount
                      = Cardinality(Range(tasks[t].recipientTokens) \ {EmptyToken})
                /\ Len(tasks[t].invalidTokens) <= tasks[t].failureCount

\* a dispatch of three batches with a failure in the first and in the last
ResultAggregatesBatchesWitness ==
    \E t \in DOMAIN tasks :
        /\ tasks[t].pc = "done" /\ tasks[t].outcome = "sent"
        /\ LET calls == CallsIn(providerLog, t)
           IN  /\ Len(calls) = 3
               /\ DOMAIN calls[1].errors # {}
               /\ DOMAIN calls[3].errors # {}
        /\ tasks[t].failureCount = 2
        /\ tasks[t].successCount = 2 * chunkSize + MaxExtraTokens - 2

-----------------------------------------------------------------------------
(* Properties of the credential bootstrap, checked under SpecCredential *)

\* no credential, or one that parses neither as JSON nor, base64-decoded, as JSON
Unconfigured(e) ==
    LET raw == IF e.FIREBASE_SERVICE_ACCOUNT_JSON # NoValue
               THEN e.FIREBASE_SERVICE_ACCOUNT_JSON
               ELSE e.FIREBASE_SERVICE_ACCOUNT
    IN  \/ raw = NoValue
        \/ raw.body = "notJson"
        \/ raw.layers > 1

\* C8 as stated: while the transport is unconfigured, every dispatch whose
\* recipient lookup answered fails as not configured, for every recipient
\* and every token list.
UnconfiguredAlwaysFails ==
    Unconfigured(env) =>
        \A t \in DOMAIN tasks :
            (tasks[t].pc = "done" /\ tasks[t].lookedUp) =>
                tasks[t].outcome = "not_configured"

\* C8 as amended: while the transport is unconfigured, a dispatch whose
\* recipient lookup answered fails as not configured if the recipient holds
\* a non-empty token and returns skipped/no_tokens if not; the provider is
\* never called, no transport client is created and nothing is left unhandled.
UnconfiguredFailsWithTokens ==
    Unconfigured(env) =>
        /\ firebaseMessaging = "null"
        /\ providerLog = <<>>
        /\ ~crashed
        /\ \A t \in DOMAIN tasks :
              (tasks[t].pc = "done" /\ tasks[t].lookedUp) =>
                  /\ tasks[t].settled = "resolved"
                  /\ tasks[t].outcome =
                        IF HoldsNoToken(users, tasks[t].recipientUserId)
                        THEN "skipped" ELSE "not_configured"

\* with a credential that is no JSON, raw or decoded, shadowing a usable
\* one, a dispatch to a recipient with tokens failed as not configured
UnconfiguredFailsWithTokensWitness ==
    /\ env.FIREBASE_SERVICE_ACCOUNT_JSON.body = "notJson"
    /\ env.FIREBASE_SERVICE_ACCOUNT = [layers |-> 0, body |-> "serviceAccount"]
    /\ \E t \in DOMAIN tasks :
          /\ tasks[t].pc = "done" /\ tasks[t].outcome = "not_configured"
          /\ ~HoldsNoToken(users, tasks[t].recipientUserId)

-----------------------------------------------------------------------------
(* Properties of token registration, checked under SpecRegister *)

\* the number of entries of a list that equal x
Occurrences(list, x) == Cardinality({k \in DOMAIN list : list[k] = x})

\* the step is an answered registration request
IsRegistrationStep ==
    Len(reqs') = Len(reqs) + 1 /\ Last(reqs').route = RouteToken

\* C11: a registration answered 200 leaves exactly one occurrence of its
\* token in the user's token list; when the token was there already the list
\* is left as it was (so a second registration changes nothing the first
\* did not), otherwise the token is appended; this holds for any order of
\* registrations of other tokens, devices and users around it.
RegistrationIdempotentStep ==
    (IsRegistrationStep /\ Last(reqs').status = 200) =>
        LET body == Last(reqs').body
            before == StoredTokens(users, body.userId)
            after == StoredTokens(users', body.userId)
        IN  /\ Occurrences(after, body.token) = 1
            /\ Occurrences(before, body.token) = 1 => after = before
            /\ Occurrences(before, body.token) = 0 => after = Append(before, body.token)
            /\ Last(reqs').data = after
            /\ \A i \in DOMAIN users :
                  users[i].id # body.userId => users'[i] = users[i]

RegistrationIdempotent == [][RegistrationIdempotentStep]_vars

\* token 1 was registered for u1 twice with the registration of another
\* token between the two, and u1 holds it once
RegistrationIdempotentWitness ==
    \E r1, r2, r3 \in RequestsOf(RouteToken) :
        /\ r1 < r2 /\ r2 < r3
        /\ \A r \in {r1, r2, r3} : reqs[r].status = 200 /\ reqs[r].body.userId = "u1"
        /\ reqs[r1].body.token = 1 /\ reqs[r2].body.token = 2 /\ reqs[r3].body.token = 1
        /\ reqs[r3].data = reqs[r2].data
        /\ Occurrences(StoredTokens(users, "u1"), 1) = 1

\* the step is the pruning write of a dispatch that removes token from userId
PrunesToken(userId, token) ==
    \E t \in DOMAIN tasks :
        /\ tasks[t].pc = "pruning" /\ tasks'[t].pc = "done"
        /\ tasks'[t].pruned = "ok"
        /\ tasks[t].recipientUserId = userId
        /\ token \in Range(tasks[t].invalidTokens)

\* C12: a registration answered 200 under a device id maps that device to
\* the token just registered, whatever it was mapped to, and leaves every
\* other device as it was; every token the flat list held is still in it,
\* together with the new one; and a step in which a token leaves a flat list
\* is the pruning write of a dispatch that was told the token is invalid.
DeviceMapsLatestTokenStep ==
    /\ (IsRegistrationStep /\ Last(reqs').status = 200 /\ Last(reqs').body.deviceId # "") =>
          LET body == Last(reqs').body
              i == Min(Matching(users, body.userId))
          IN  /\ DOMAIN users'[i].deviceTokens = DOMAIN users[i].deviceTokens \cup {body.deviceId}
              /\ users'[i].deviceTokens[body.deviceId] = body.token
              /\ \A d \in DOMAIN users[i].deviceTokens :
                    d # body.deviceId => users'[i].deviceTokens[d] = users[i].deviceTokens[d]
              /\ Range(users'[i].fcmTokens) = Range(users[i].fcmTokens) \cup {body.token}
    /\ \A i \in DOMAIN users :
          \A token \in Range(users[i].fcmTokens) \ Range(users'[i].fcmTokens) :
              PrunesToken(users[i].id, token)

-----------------------------------------------------------------------------
(* Properties of removeInvalidTokens, checked under SpecPrune and SpecNotify *)

\* the step is a call of removeInvalidTokens
IsPruneCallStep == Len(pruneLog') = Len(pruneLog) + 1

\* C13: a call of removeInvalidTokens for a user id no document has, or with
\* tokens none of which the user holds, resolves and leaves every user
\* document and its token list as they were; a call with an empty list
\* issues no updateOne at all.
PruneIneffectiveStep ==
    IsPruneCallStep =>
        LET call == Last(pruneLog')
            absent == Matching(users, call.userId) = {}
            held == Range(StoredTokens(users, call.userId))
        IN  /\ call.settled = "resolved"
            /\ ~crashed'
            /\ (absent \/ Range(call.invalidTokens) \cap held = {}) =>
                  /\ Len(users') = Len(users)
                  /\ \A i \in DOMAIN users :
                        /\ users'[i].id = users[i].id
                        /\ users'[i].fcmTokens = users[i].fcmTokens
            /\ Len(call.invalidTokens) = 0 => call.write = "none" /\ users' = users

PruneIneffective == [][PruneIneffectiveStep]_vars

\* removeInvalidTokens was called for a user that does not exist, with a
\* write the store accepted, and with an empty list
PruneIneffectiveWitness ==
    /\ \E k \in DOMAIN pruneLog :
          /\ pruneLog[k].userId = "u3" /\ pruneLog[k].write = "ok"
          /\ Matching(users, "u3") = {}
    /\ \E k \in DOMAIN pruneLog :
          pruneLog[k].invalidTokens = <<>> /\ pruneLog[k].write = "none"

\* the result a dispatch holds: the three values sendPushNotification returns
ResultOf(task) ==
    [successCount |-> task.successCount,
     failureCount |-> task.failureCount,
     invalidTokens |-> task.invalidTokens]

\* C14: the step in which the pruning write of a dispatch ends leaves the
\* result the dispatch had before the write, whether the write succeeded or
\* failed; when it failed the dispatch still returns that result (the
\* notifications route answers 200 with it), nothing is raised and every
\* user document is as it was.
PruneFailureNotRaisedStep ==
    \A t \in DOMAIN tasks :
        (tasks[t].pc = "pruning" /\ tasks'[t].pc = "done") =>
            /\ ResultOf(tasks'[t]) = ResultOf(tasks[t])
            /\ Range(tasks'[t].invalidTokens) = ReportedInvalid(providerLog, t)
            /\ tasks'[t].pruned = "failed" =>
                  /\ tasks'[t].outcome = "sent"
                  /\ tasks'[t].settled = "resolved"
                  /\ ~crashed'
                  /\ users' = users
                  /\ Last(pruneLog').settled = "resolved"
                  /\ tasks[t].caller = "route" =>
                        /\ reqs'[tasks[t].req].status = 200
                        /\ reqs'[tasks[t].req].data = ResultOf(tasks[t])

PruneFailureNotRaised == [][PruneFailureNotRaisedStep]_vars

\* the pruning write of a dispatch failed: the request was answered 200 with
\* invalidTokens = [2] and the recipient still holds token 2
PruneFailureNotRaisedWitness ==
    \E t \in DOMAIN tasks :
        /\ tasks[t].pc = "done" /\ tasks[t].pruned = "failed"
        /\ tasks[t].caller = "route"
        /\ reqs[tasks[t].req].status = 200
        /\ reqs[tasks[t].req].data.invalidTokens = <<2>>
        /\ 2 \in Range(StoredTokens(users, tasks[t].recipientUserId))

-----------------------------------------------------------------------------
(* Properties of concurrent dispatches, checked under SpecConcurrent *)

\* the tokens of the pruning writes to userId that the store applied
PrunedFrom(log, userId) ==
    UNION {Range(log[k].invalidTokens) :
           k \in {j \in DOMAIN log : log[j].userId = userId /\ log[j].write = "ok"}}

\* C16: with any number of dispatches to one user under way, in every state
\* the user's token list is the initial list less the union of the invalid
\* tokens of the pruning writes applied so far, in the initial order: no
\* order of the writes brings back a removed token or removes another one.
PruneCommutes ==
    LET Stays(token) == token \notin PrunedFrom(pruneLog, "u1")
    IN  StoredTokens(users, "u1") = SelectSeq(ConcurrentTokens, Stays)

\* two dispatches read the same three tokens, one was told that token 2 is
\* invalid and the other that token 501 is, and both have pruned
PruneCommutesWitness ==
    \E t1, t2 \in DOMAIN tasks :
        /\ tasks[t1].pc = "done" /\ tasks[t1].pruned = "ok"
        /\ tasks[t2].pc = "done" /\ tasks[t2].pruned = "ok"
        /\ tasks[t1].recipientTokens = ConcurrentTokens
        /\ tasks[t2].recipientTokens = ConcurrentTokens
        /\ tasks[t1].invalidTokens = <<2>>
        /\ tasks[t2].invalidTokens = <<chunkSize + 1>>
        /\ StoredTokens(users, "u1") = <<1>>

\* the dispatches that went to the transport and found none
FoundNoTransport(taskSeq) ==
    {t \in DOMAIN taskSeq : taskSeq[t].outcome = "not_configured"}

\* C20 as stated: over any sequence of dispatches the credential is read
\* and parsed at most once, and a transport client, once it exists, is
\* neither replaced nor cleared.
InitialisedAtMostOnceStep ==
    /\ credentialReads' <= 1
    /\ firebaseMessaging # "null" => firebaseMessaging' = firebaseMessaging

InitialisedAtMostOnce == [][InitialisedAtMostOnceStep]_vars

\* C20 as amended: a transport client, once it exists, is neither replaced
\* nor cleared and the credential is not read again: it was read once, by
\* the call that created the client; while no client exists nothing is kept,
\* and every dispatch that goes to the transport reads and parses the
\* credential again, so that the reads number the dispatches that failed as
\* not configured.
InitialisationMemoizedOnSuccessStep ==
    /\ firebaseMessaging # "null" =>
          /\ firebaseMessaging' = firebaseMessaging
          /\ adminApps' = adminApps
          /\ credentialReads' = credentialReads
    /\ firebaseMessaging' # "null" =>
          /\ credentialReads' = 1
          /\ adminApps' = 1
          /\ FoundNoTransport(tasks') = {}
    /\ firebaseMessaging' = "null" =>
          /\ adminApps' = 0
          /\ credentialReads' = Cardinality(FoundNoTransport(tasks'))

InitialisationMemoizedOnSuccess == [][InitialisationMemoizedOnSuccessStep]_vars

\* two dispatches have sent through the one client, after one read of the
\* credential
InitialisationMemoizedOnSuccessWitness ==
    /\ firebaseMessaging = "messaging"
    /\ credentialReads = 1
    /\ \E t1, t2 \in DOMAIN tasks :
          /\ t1 # t2
          /\ \E i \in DOMAIN providerLog : providerLog[i].task = t1
          /\ \E i \in DOMAIN providerLog : providerLog[i].task = t2

-----------------------------------------------------------------------------
(* Properties of the item routes and the lists, checked under SpecItems *)

\* the ids of a sequence of documents
IdsOf(docs) == {docs[k].id : k \in DOMAIN docs}

\* the step is an answered DELETE /api/v1/items/:itemId
IsDeleteStep ==
    Len(reqs') = Len(reqs) + 1 /\ Last(reqs').route = RouteDeleteItem

\* C17: a DELETE of an existing item answered 200 removes no document:
\* the collection has the same documents in the same places, the item is
\* still found by its id, with isAvailable false and every field but
\* isAvailable and updatedAt as before, and no GET /api/v1/items query
\* returns it on any page; a DELETE of an id no item has is answered 404
\* (500 when the store fails) and leaves every collection as it was.
SoftDeleteKeepsDocumentStep ==
    IsDeleteStep =>
        LET itemId == Last(reqs').body
            status == Last(reqs').status
            unknown == \A i \in DOMAIN items : items[i].id # itemId
        IN  /\ unknown => status \in {404, 500} /\ items' = items
            /\ ~unknown => status \in {200, 500}
            /\ status # 200 => items' = items
            /\ users' = users /\ offers' = offers
            /\ Len(items') = Len(items)
            /\ \A i \in DOMAIN items \cap DOMAIN items' :
                  /\ items[i].id # itemId => items'[i] = items[i]
                  /\ (items[i].id = itemId /\ status = 200) =>
                        /\ items'[i].isAvailable = FALSE
                        /\ [items'[i] EXCEPT !.isAvailable = TRUE, !.updatedAt = 0]
                              = [items[i] EXCEPT !.isAvailable = TRUE, !.updatedAt = 0]
                        /\ Last(reqs').data = items'[i]
            /\ status = 200 =>
                  \A q \in ItemQueries :
                     \A order \in SortedByCreatedAt(items', MatchingItems(items', q)) :
                        itemId \notin IdsOf(PageOf(items', order, q.page, q.limit))

SoftDeleteKeepsDocument == [][SoftDeleteKeepsDocumentStep]_vars

\* item i1 was deleted and then read by its id: it is there, unavailable
SoftDeleteKeepsDocumentWitness ==
    \E r1, r2 \in DOMAIN reqs :
        /\ r1 < r2
        /\ reqs[r1].route = RouteDeleteItem /\ reqs[r1].body = "i1" /\ reqs[r1].status = 200
        /\ reqs[r2].route = RouteGetItem /\ reqs[r2].body = "i1" /\ reqs[r2].status = 200
        /\ reqs[r2].data.isAvailable = FALSE
        /\ reqs[r2].data.name = <<"G", "u">>

\* the step is the find of a GET /api/v1/items that the store answered
IsItemsFindStep ==
    /\ Len(reqs') = Len(reqs) + 1
    /\ Last(reqs').route = RouteGetItems
    /\ Last(reqs').pc = "count"

\* the stored items that are available and pass every supplied filter of q
Wanted(q) ==
    {i \in DOMAIN items :
        /\ items[i].isAvailable
        /\ q.category # "" => items[i].category = q.category
        /\ q.ownerId # "" => items[i].ownerId = q.ownerId
        /\ q.search # <<>> =>
              \/ RegexMatchesIgnoringCase(items[i].name, q.search)
              \/ RegexMatchesIgnoringCase(items[i].description, q.search)}

\* C18: the documents GET /api/v1/items returns are stored items, each
\* once, each available and passing every filter the request supplied
\* (category, ownerId, search in name or description whatever the case);
\* they come newest first, and every wanted item newer than a returned one
\* is on this page before it or on an earlier page.
ItemsListFiltersStep ==
    IsItemsFindStep =>
        LET q == Last(reqs').body
            data == Last(reqs').data
            skipped == (q.page - 1) * q.limit
        IN  /\ Len(data) <= q.limit
            /\ \A k \in DOMAIN data :
                  /\ \E i \in Wanted(q) : items[i] = data[k]
                  /\ \A j \in DOMAIN data : j < k =>
                        /\ data[j].id # data[k].id
                        /\ data[j].createdAt >= data[k].createdAt
                  /\ Cardinality({i \in Wanted(q) : items[i].createdAt > data[k].createdAt})
                        <= skipped + k - 1

ItemsListFilters == [][ItemsListFiltersStep]_vars

\* the Books with "gU" were asked for: the answer is i3 (name "GU") and
\* then the older i2 ("gu" in the description)
ItemsListFiltersWitness ==
    \E r \in RequestsOf(RouteGetItems) :
        /\ reqs[r].status = 200
        /\ reqs[r].body.category = "Books" /\ reqs[r].body.search = <<"g", "U">>
        /\ reqs[r].body.ownerId = ""
        /\ Len(reqs[r].data) = 2
        /\ reqs[r].data[1].id = "i3" /\ reqs[r].data[2].id = "i2"

\* no request has changed the store
StoreUnchanged ==
    \A r \in DOMAIN reqs : reqs[r].route = RouteDeleteItem => reqs[r].status # 200

\* the number of stored documents the query of list request r matches
TotalOf(r) ==
    IF reqs[r].route = RouteGetItems
    THEN Cardinality(MatchingItems(items, reqs[r].body))
    ELSE Cardinality(MatchingOffers(offers, reqs[r].body))

\* the answered list requests
Listed == {r \in DOMAIN reqs : reqs[r].route \in {RouteGetItems, RouteGetOffers}
                                /\ reqs[r].pc = "done" /\ reqs[r].status = 200}

\* the requests are for the same list with the same filter and limit
SameList(r1, r2) ==
    /\ reqs[r1].route = reqs[r2].route
    /\ [reqs[r1].body EXCEPT !.page = 1] = [reqs[r2].body EXCEPT !.page = 1]

\* C19: while the store does not change, an answered list request with
\* page p and limit L has total = the number of documents its filter
\* matches, pages = ceil(total / L) and as data the min(L, total - (p-1)L)
\* documents (none beyond the last page) at that place of the sorted
\* result; two requests for different pages of the same list share no
\* document, and requests for all the pages 1..pages return every
\* matching document.
PagesPartitionResult ==
    StoreUnchanged =>
        /\ \A r \in Listed :
              LET q == reqs[r].body
                  total == TotalOf(r)
                  rest == total - (q.page - 1) * q.limit
              IN  /\ reqs[r].pagination.total = total
                  /\ reqs[r].pagination.pages * q.limit >= total
                  /\ (reqs[r].pagination.pages - 1) * q.limit < total \/ total = 0
                  /\ reqs[r].pagination.page = q.page
                  /\ reqs[r].pagination.limit = q.limit
                  /\ Len(reqs[r].data) = IF rest <= 0 THEN 0
                                         ELSE IF rest < q.limit THEN rest ELSE q.limit
        /\ \A r1, r2 \in Listed :
              (SameList(r1, r2) /\ reqs[r1].body.page # reqs[r2].body.page) =>
                  IdsOf(reqs[r1].data) \cap IdsOf(reqs[r2].data) = {}
        /\ \A r \in Listed :
              LET same == {x \in Listed : SameList(x, r)}
              IN  (\A page \in 1..reqs[r].pagination.pages :
                      \E x \in same : reqs[x].body.page = page) =>
                  Cardinality(UNION {IdsOf(reqs[x].data) : x \in same}) = TotalOf(r)

-----------------------------------------------------------------------------
(* Properties of the token lifecycle, checked under SpecApi *)

\* C15: in every step of any sequence of requests, a token that was in the
\* token list of a user and is no longer in it was removed by the pruning
\* write of a dispatch to that user that had collected it as invalid; no
\* registration, user creation, user update, offer or item request removes
\* a token.
TokensLeaveOnlyByPruningStep ==
    \A i \in DOMAIN users :
        \A token \in Range(users[i].fcmTokens) \ Range(users'[i].fcmTokens) :
            PrunesToken(users[i].id, token)

TokensLeaveOnlyByPruning == [][TokensLeaveOnlyByPruningStep]_vars

-----------------------------------------------------------------------------
(* Properties of the send loop, checked under SpecBatch *)

\* the calls of removeInvalidTokens that dispatch t made
PruneCallsOf(log, t) == {i \in DOMAIN log : log[i].task = t}

\* C23: in every reachable state a dispatch has at most one provider call
\* waiting for its response; a provider call of a dispatch that is followed
\* by another call of the same dispatch has been responded to, so batch k+1
\* is sent after the response to batch k; and a dispatch that is pruning or
\* has pruned has sent every batch and received the response to each.
BatchesSentSequentially ==
    \A t \in DOMAIN tasks :
        LET calls == CallsIn(providerLog, t)
        IN  /\ Cardinality({k \in DOMAIN calls : calls[k].state = "pending"}) <= 1
            /\ \A k \in DOMAIN calls :
                  /\ calls[k].tokens = tasks[t].batches[k]
                  /\ k < Len(calls) => calls[k].state = "responded"
            /\ Len(calls) <= Len(tasks[t].batches)
            /\ (tasks[t].pc = "pruning" \/ PruneCallsOf(pruneLog, t) # {}) =>
                  /\ Len(calls) = Len(tasks[t].batches)
                  /\ \A k \in DOMAIN calls : calls[k].state = "responded"

\* a dispatch of three batches is waiting for the second response with the
\* first one received and the third batch not yet sent
BatchesSentSequentiallyWitness ==
    \E t \in DOMAIN tasks :
        LET calls == CallsIn(providerLog, t)
        IN  /\ Len(tasks[t].batches) = 3
            /\ Len(calls) = 2
            /\ calls[1].state = "responded"
            /\ calls[2].state = "pending"

\* C24: the tokens a dispatch has sent to the provider, over all its
\* batches, never repeat a token and never include the empty token; the
\* list a dispatch sets out to send holds exactly the distinct non-empty
\* tokens stored for the recipient when it was read, and a dispatch that
\* received the response to its last batch has sent exactly that list.
EachTokenSentOnceStep ==
    \A t \in DOMAIN tasks' :
        LET sent == TokensSent(CallsIn(providerLog', t))
        IN  /\ Len(sent) = Cardinality(Range(sent))
            /\ EmptyToken \notin Range(sent)
            /\ (t \in DOMAIN tasks /\ tasks[t].pc = "recipient" /\ tasks'[t].pc = "sending") =>
                  Range(tasks'[t].uniqueTokens) =
                      Range(StoredTokens(users, tasks[t].recipientUserId)) \ {EmptyToken}
            /\ (tasks'[t].pc = "pruning" \/ (tasks'[t].pc = "done" /\ tasks'[t].outcome = "sent")) =>
                  sent = tasks'[t].uniqueTokens

EachTokenSentOnce == [][EachTokenSentOnceStep]_vars

\* a recipient who held 500 tokens, two of them a second time and an empty
\* entry, was sent to in one batch of 500
EachTokenSentOnceWitness ==
    \E t \in DOMAIN tasks :
        /\ tasks[t].pc = "done" /\ tasks[t].outcome = "sent"
        /\ Len(tasks[t].recipientTokens) = chunkSize + 2
        /\ Len(TokensSent(CallsIn(providerLog, t))) = chunkSize

-----------------------------------------------------------------------------
(* Properties of the collection of invalid tokens, checked under SpecNotify *)

\* the tokens of the provider calls of dispatch t
TokensOfCalls(log, t) ==
    UNION {Range(log[i].tokens) : i \in {j \in DOMAIN log : log[j].task = t}}

\* the tokens for which the provider reported a failure to dispatch t,
\* whatever the code
ReportedFailed(log, t) ==
    UNION {DOMAIN log[i].errors : i \in {j \in DOMAIN log : log[j].task = t}}

\* C25: at every step, the invalidTokens of a dispatch are exactly the
\* tokens whose delivery in this dispatch the provider failed with the
\* unregistered-token or the invalid-token code, and all of them are tokens
\* the dispatch sent; a delivery that failed with another code or with no
\* code is counted in failureCount and not collected; and the pruning write
\* of the dispatch removes no token other than the collected ones, from no
\* user other than the recipient.
CollectedIffInvalidStep ==
    \A t \in DOMAIN tasks' :
        LET bad == ReportedInvalid(providerLog', t)
            failed == ReportedFailed(providerLog', t)
        IN  /\ Range(tasks'[t].invalidTokens) = bad
            /\ bad \subseteq TokensOfCalls(providerLog', t)
            /\ tasks'[t].failureCount = Cardinality(failed)
            /\ (t \in DOMAIN tasks /\ tasks[t].pc = "pruning" /\ tasks'[t].pc = "done") =>
                  \A i \in DOMAIN users :
                      /\ Range(users[i].fcmTokens) \ Range(users'[i].fcmTokens) \subseteq bad
                      /\ users[i].id # tasks[t].recipientUserId => users'[i] = users[i]

CollectedIffInvalid == [][CollectedIffInvalidStep]_vars

\* a dispatch returned with a delivery that failed on an internal error or
\* without a code: the failure is counted, nothing was collected, and the
\* recipient still holds the token
CollectedIffInvalidWitness ==
    \E t \in DOMAIN tasks :
        /\ tasks[t].pc = "done" /\ tasks[t].outcome = "sent"
        /\ tasks[t].failureCount = 1
        /\ tasks[t].invalidTokens = <<>>
        /\ \E i \in DOMAIN providerLog :
              /\ providerLog[i].task = t
              /\ 2 \in DOMAIN providerLog[i].errors
              /\ providerLog[i].errors[2] \in {CodeInternal, CodeNone}
        /\ 2 \in Range(StoredTokens(users, tasks[t].recipientUserId))

-----------------------------------------------------------------------------
(* Properties of a failed batch, checked under SpecBatch *)

\* C27: in every reachable state, a provider call that raised is the last
\* call of its dispatch: the dispatch has ended as failed on the provider
\* error, sent no later batch, returned no result (the route that awaited it
\* answered 500 without data), called removeInvalidTokens not at all, and
\* the tokens that earlier batches reported as invalid are still in the
\* recipient's token list.
RaisedBatchFailsDispatch ==
    \A i \in DOMAIN providerLog :
        providerLog[i].state = "raised" =>
            LET t == providerLog[i].task
                calls == CallsIn(providerLog, t)
            IN  /\ tasks[t].pc = "done"
                /\ tasks[t].outcome = "provider_error"
                /\ Last(calls) = providerLog[i]
                /\ Len(calls) = tasks[t].batchIdx
                /\ \A k \in 1..(Len(calls) - 1) : calls[k].state = "responded"
                /\ PruneCallsOf(pruneLog, t) = {}
                /\ tasks[t].pruned = "none"
                /\ ReportedInvalid(providerLog, t)
                      \subseteq Range(StoredTokens(users, tasks[t].recipientUserId))
                /\ tasks[t].caller = "route" =>
                      /\ reqs[tasks[t].req].status = 500
                      /\ reqs[tasks[t].req].data = <<>>

\* the second of three batches raised after the first had reported token 2
\* as invalid: the third was not sent and token 2 is still stored
RaisedBatchFailsDispatchWitness ==
    \E t \in DOMAIN tasks :
        LET calls == CallsIn(providerLog, t)
        IN  /\ Len(tasks[t].batches) = 3
            /\ Len(calls) = 2
            /\ calls[2].state = "raised"
            /\ 2 \in ReportedInvalid(providerLog, t)
            /\ 2 \in Range(StoredTokens(users, tasks[t].recipientUserId))
            /\ tasks[t].pc = "done"

-----------------------------------------------------------------------------
(* The frame of pruning, checked under SpecRegister *)

\* C28: a step in which removeInvalidTokens is called changes of every user
\* document at most the token list, and no item and no offer: the device
\* mapping of the recipient is as it was, whether or not it maps a device to
\* a token that was just removed.
PruneLeavesDeviceMapStep ==
    IsPruneCallStep =>
        /\ Len(users') = Len(users)
        /\ \A i \in DOMAIN users :
              /\ users'[i].deviceTokens = users[i].deviceTokens
              /\ users'[i] = [users[i] EXCEPT !.fcmTokens = users'[i].fcmTokens]
        /\ items' = items
        /\ offers' = offers

PruneLeavesDeviceMap == [][PruneLeavesDeviceMapStep]_vars

\* token 2 was registered for device D1 of u1 and then pruned: D1 still maps
\* to token 2, which is no longer in the token list
PruneLeavesDeviceMapWitness ==
    \E i \in DOMAIN users :
        /\ "D1" \in DOMAIN users[i].deviceTokens
        /\ users[i].deviceTokens["D1"] = 2
        /\ 2 \notin Range(users[i].fcmTokens)
        /\ \E k \in DOMAIN pruneLog :
              /\ pruneLog[k].userId = users[i].id
              /\ pruneLog[k].write = "ok"
              /\ 2 \in Range(pruneLog[k].invalidTokens)

-----------------------------------------------------------------------------
(* Properties of the cleanup of orphaned items, checked under SpecCleanup *)

\* the items of a collection whose owner is no user of the other
Orphans(itemColl, userColl) ==
    LET IsOrphan(doc) == doc.ownerId \notin Distinct(userColl, "id")
    IN  SelectSeq(itemColl, IsOrphan)

\* the items of a collection whose owner is a user of the other
Owned(itemColl, userColl) ==
    LET HasOwner(doc) == doc.ownerId \in Distinct(userColl, "id")
    IN  SelectSeq(itemColl, HasOwner)

\* cleanup request r is answered 200 in this step
CleanupAnswers(r) ==
    /\ r \in RequestsOf(RouteCleanup)
    /\ reqs[r].pc # "done"
    /\ reqs'[r].pc = "done"
    /\ reqs'[r].status = 200

\* the owner ids and, once read, the user ids that request r holds are
\* those of the store as it is, as they are when no other request ran since
\* r began
ReadsCurrent(r) ==
    /\ reqs[r].itemsWithOwners = Distinct(items, "ownerId")
    /\ reqs[r].pc = "delete" => reqs[r].allUsers = Distinct(users, "id")

\* C22: when a cleanup request whose reads still describe the store (as
\* they do when no other request ran in between) is answered 200, the items
\* left are exactly the items whose owner exists, in their order, so every
\* remaining item has an owner and no item with an owner was removed;
\* deletedCount is the number of items removed; with orphans the answer
\* carries the set of their owner ids, and without orphans nothing is
\* removed and deletedCount is 0.
CleanupRemovesOrphansStep ==
    \A r \in DOMAIN reqs :
        (CleanupAnswers(r) /\ ReadsCurrent(r)) =>
            LET orphans == Orphans(items, users)
            IN  /\ items' = Owned(items, users)
                /\ users' = users
                /\ reqs'[r].data.deletedCount = Len(orphans)
                /\ Len(items') = Len(items) - reqs'[r].data.deletedCount
                /\ orphans # <<>> =>
                      reqs'[r].data.orphanedOwnerIds = Distinct(orphans, "ownerId")
                /\ orphans = <<>> =>
                      /\ items' = items
                      /\ reqs'[r].data = [deletedCount |-> 0]

CleanupRemovesOrphans == [][CleanupRemovesOrphansStep]_vars

\* a cleanup that ran alone removed the three items of the missing owners
\* u8 and u9 and left the item of u1
CleanupRemovesOrphansWitness ==
    /\ \E r \in RequestsOf(RouteCleanup) :
          /\ reqs[r].status = 200
          /\ reqs[r].data = [deletedCount |-> 3, orphanedOwnerIds |-> {"u8", "u9"}]
    /\ IdsOf(items) = {"i1"}
    /\ CleanupCreates = {}

\* C29: in every step, whatever requests interleave, an item that the
\* deleteMany of a cleanup removes has an owner id that no user has at that
\* moment.
CleanupRemovesOnlyOrphansStep ==
    \A i \in DOMAIN items :
        items[i].id \notin IdsOf(items') =>
            items[i].ownerId \notin Distinct(users, "id")

CleanupRemovesOnlyOrphans == [][CleanupRemovesOnlyOrphansStep]_vars

-----------------------------------------------------------------------------
(* Properties of the offer routes, checked under SpecOffers *)

\* C26: in every reachable state, after any sequence of offer creations
\* and PUT /api/v1/offers/:offerId updates, the status of every stored offer
\* is one of PENDING, ACCEPTED, REJECTED, COUNTERED, EXPIRED, CANCELLED.
OfferStatusInEnum ==
    \A i \in DOMAIN offers : offers[i].status \in OfferStatuses

\* C30: in every reachable state, no two dispatches started by offer
\* creation are for the same offer id, whatever POST and PUT requests on
\* offers were issued and however they interleaved.
OneCreationDispatchPerOffer ==
    \A t1, t2 \in DOMAIN tasks :
        ( /\ tasks[t1].caller = "queue"
          /\ tasks[t2].caller = "queue"
          /\ tasks[t1].offerId = tasks[t2].offerId ) => t1 = t2

-----------------------------------------------------------------------------
(* Properties of concurrent creation, checked under SpecCreate *)

\* no two documents of a collection have the same value of a field
UniqueIn(coll, field) ==
    \A i, j \in DOMAIN coll : coll[i][field] = coll[j][field] => i = j

\* the collection a creation route saves to, among the five given
CollectionAmong(route, userColl, itemColl, offerColl, messageColl, tradeColl) ==
    CASE route = RoutePostUser -> userColl
      [] route = RoutePostItem -> itemColl
      [] route = RouteOffers -> offerColl
      [] route = RoutePostMessage -> messageColl
      [] route = RoutePostTrade -> tradeColl

CollectionOf(route) ==
    CollectionAmong(route, users, items, offers, chatMessages, tradeHistory)

\* a stored document has the id of the body, or for a user its email
Taken(route, body) ==
    \E i \in DOMAIN CollectionOf(route) :
        \/ CollectionOf(route)[i].id = body.id
        \/ route = RoutePostUser /\ CollectionOf(route)[i].email = body.email

\* C21: after every step no two users share an id or an email and no two
\* items, offers, chats, chat messages or trade records share an id; a
\* creation request whose id (for a user, id or email) a stored document
\* has, be it the document of a request that is still being handled, fails
\* in the store and stores nothing, while a save that succeeds adds one
\* document with the id of the request; and a request is answered 201 only
\* if its save succeeded and 500 if it failed.
CreationKeepsIdsUniqueStep ==
    /\ UniqueIn(users', "id") /\ UniqueIn(users', "email")
    /\ UniqueIn(items', "id") /\ UniqueIn(offers', "id") /\ UniqueIn(chats', "id")
    /\ UniqueIn(chatMessages', "id") /\ UniqueIn(tradeHistory', "id")
    /\ (Len(reqs') = Len(reqs) + 1 /\ Last(reqs').route \in CreateRoutes \cup {RouteOffers}) =>
          LET req == Last(reqs')
              before == CollectionOf(req.route)
              after == CollectionAmong(req.route, users', items', offers',
                                       chatMessages', tradeHistory')
          IN  /\ Taken(req.route, req.body) => ~req.saveOk
              /\ req.saveOk =>
                    /\ Len(after) = Len(before) + 1
                    /\ \A i \in DOMAIN before : after[i] = before[i]
                    /\ Last(after).id = req.body.id
              /\ ~req.saveOk => after = before
    /\ \A r \in DOMAIN reqs :
          ( /\ reqs[r].route \in CreateRoutes \cup {RouteOffers}
            /\ reqs[r].pc # "done" /\ reqs'[r].pc = "done" ) =>
              /\ reqs'[r].status \in {201, 500}
              /\ reqs'[r].status = 201 => reqs[r].saveOk
              /\ ~reqs[r].saveOk => reqs'[r].status = 500

CreationKeepsIdsUnique == [][CreationKeepsIdsUniqueStep]_vars

\* two requests to create user u3 are being handled at the same time: the
\* save of one succeeded, the save of the other failed, neither is answered
\* yet, and one document u3 is stored
CreationKeepsIdsUniqueWitness ==
    \E r1, r2 \in RequestsOf(RoutePostUser) :
        /\ reqs[r1].body.id = "u3" /\ reqs[r2].body.id = "u3"
        /\ reqs[r1].pc = "saved"
        /\ reqs[r2].pc = "failed"
        /\ Cardinality(Matching(users, "u3")) = 1

====
